---- MODULE Spec2Model ----
(***************************************************************************)
(* Model of the automatic-submission-flow tools: the Job / Task / File     *)
(* lifecycle operations that rewrite a remote triplestore.                 *)
(*                                                                         *)
(* The store is a set of quads <<graph, subject, predicate, object>>.      *)
(* Every operation of the library builds one SPARQL update when it is      *)
(* called (capturing `new Date()` and fresh uuids at that moment) and      *)
(* then awaits `mas.updateSudo`.  A status update is therefore two steps:  *)
(* the call, which puts the built update in flight, and the store          *)
(* executing it; updates of different callers are executed in any order.   *)
(* A create is an INSERT DATA of facts about subjects with fresh IRIs that *)
(* no caller knows before the create has returned: it commutes with every  *)
(* other update, and its call and its execution are one step.              *)
(***************************************************************************)
EXTENDS Naturals, FiniteSets, Sequences, TLC

VARIABLES store, pending, clock, nextUuid, last, deltas, subjects, disk, calls

vars == <<store, pending, clock, nextUuid, last, deltas, subjects, disk, calls>>

\* The delta messages received and the result of filtering them.
deltaVars == <<deltas, subjects>>

\* The paths of the shared volume that hold content, and the calls of the
\* content operations (asfFiles) that are between two of their awaits.
fileVars == <<disk, calls>>

(***************************************************************************)
(* Bounds of the model.                                                    *)
(***************************************************************************)
\* The number of calls the callers make.
MaxCalls == 3

\* new Date(): every call reads the clock once, when it starts, and the clock
\* has advanced since the call before, so `clock` also counts the calls.
Readings == {t \in {clock} : t < MaxCalls}

(***************************************************************************)
(* RDF terms.  A term is <<termType, text, n>>: a fixed IRI or a plain      *)
(* literal has n = 0, an IRI or literal built from a uuid carries the uuid *)
(* in n, a dateTime or number literal carries its value in n.              *)
(***************************************************************************)
namedNode(name) == <<"NamedNode", name, 0>>
literal(text) == <<"Literal", text, 0>>
literalUuid(u) == <<"Literal", "uuid", u>>
literalDateTime(t) == <<"Literal", "^^xsd:dateTime", t>>
literalIndex(i) == <<"Literal", "index", i>>
NoTerm == <<"undefined", "", 0>>

\* cts.BASE_TABLE.job.concat(uuid): job, task, resultsContainer,
\* inputContainer, harvestingCollection and file share the asj: namespace.
BASE_TABLE(u) == <<"NamedNode", "asj:", u>>

\* cts.JOB_STATUSES and cts.TASK_STATUSES
JOB_STATUSES ==
  [busy |-> namedNode("js:busy"),
   success |-> namedNode("js:success"),
   failed |-> namedNode("js:failed")]

TASK_STATUSES ==
  [scheduled |-> namedNode("js:scheduled"),
   busy |-> namedNode("js:busy"),
   success |-> namedNode("js:success"),
   failed |-> namedNode("js:failed")]

\* `cts.JOB_STATUSES.fail`: the table has no such key, the lookup yields
\* undefined.
JOB_STATUSES_fail == NoTerm

JobStatusValues == {JOB_STATUSES.busy, JOB_STATUSES.success, JOB_STATUSES.failed}
TaskStatusValues == JobStatusValues \cup {TASK_STATUSES.scheduled}

(***************************************************************************)
(* Inputs the callers draw from.                                           *)
(***************************************************************************)
Graph == namedNode("graph:submissions")
Creator == namedNode("services:automatic-submission-service")
Activities == {namedNode("activity:X"), namedNode("activity:Y")}
Errors == {namedNode("errors:E1")}
OptErrors == Errors \cup {NoTerm}
OPERATIONS_automaticSubmissionFlow == namedNode("jobo:automaticSubmissionFlow")
COGS_OPERATION_transformation == namedNode("cogs:TransformationProcess")

\* Facts other services have written: the type of the activities.
ExternalFacts ==
  {<<Graph, a, "rdf:type", namedNode("meb:Submission")>> : a \in Activities}

(***************************************************************************)
(* Updates in flight.                                                      *)
(***************************************************************************)
InsertDataOps ==
  {"createJob", "createTask", "createFile", "createError", "createErrorMu"}
StatusOps == {"updateJobStatus", "updateTaskStatus"}
FileOps == {"updateFile", "removeFile"}

Request(op, g, s, now, status, error, files, rdos, ins) ==
  [op |-> op, g |-> g, s |-> s, now |-> now, status |-> status,
   error |-> error, files |-> files, rdos |-> rdos, ins |-> ins]

NoRequest ==
  [req |-> Request("none", NoTerm, NoTerm, 0, NoTerm, NoTerm, {}, {}, {}),
   matched |-> FALSE, failed |-> FALSE, returned |-> NoTerm]

(***************************************************************************)
(* The store executing an update.                                          *)
(***************************************************************************)
\* INSERT DATA { GRAPH g { ins } }
InsertData(st, g, ins) == st \cup {<<g, t[1], t[2], t[3]>> : t \in ins}

\* A pattern that matches only while the status is not a final one.
WhereStatus_openOnly(st, s) ==
  LET statuses == {q \in st : q[2] = s /\ q[3] = "adms:status"
                                /\ q[4] \notin {JOB_STATUSES.success, JOB_STATUSES.failed}}
      modifieds == {q \in st : q[2] = s /\ q[3] = "dct:modified"}
  IN {<<qm[1][1], qm[1][4], qm[2][4]>> :
        qm \in {x \in statuses \X modifieds : x[1][1] = x[2][1]}}

\* WHERE { GRAPH ?g { s adms:status ?oldStatus ; dct:modified ?oldModified } }
\* The solutions, as <<g, oldStatus, oldModified>>.
WhereStatus(st, s) ==
  LET statuses == {q \in st : q[2] = s /\ q[3] = "adms:status"}
      modifieds == {q \in st : q[2] = s /\ q[3] = "dct:modified"}
  IN {<<qm[1][1], qm[1][4], qm[2][4]>> :
        qm \in {x \in statuses \X modifieds : x[1][1] = x[2][1]}}

\* A delete template that names only the status.
DeleteStatus_statusOnly(s, sols) ==
  {<<sol[1], s, "adms:status", sol[2]>> : sol \in sols}

\* A delete template that also retracts the error link.
DeleteStatus_withError(s, sols) ==
  {<<sol[1], s, "adms:status", sol[2]>> : sol \in sols}
    \cup {<<sol[1], s, "dct:modified", sol[3]>> : sol \in sols}
    \cup {<<sol[1], s, "task:error", namedNode("errors:E1")>> : sol \in sols}

\* A delete template that also names the created value, where it is the
\* old modified value.
DeleteStatus_withCreated(s, sols) ==
  {<<sol[1], s, "adms:status", sol[2]>> : sol \in sols}
    \cup {<<sol[1], s, "dct:modified", sol[3]>> : sol \in sols}
    \cup {<<sol[1], s, "dct:created", sol[3]>> : sol \in sols}

\* DELETE { GRAPH ?g { s adms:status ?oldStatus ; dct:modified ?oldModified } }
DeleteStatus(s, sols) ==
  {<<sol[1], s, "adms:status", sol[2]>> : sol \in sols}
    \cup {<<sol[1], s, "dct:modified", sol[3]>> : sol \in sols}

\* An insert that does not depend on the WHERE pattern (INSERT DATA into
\* the submission graph).
InsertTemplate_unconditional(sols, ins) ==
  {<<g, t[1], t[2], t[3]>> :
     <<g, t>> \in ({sol[1] : sol \in sols} \cup {Graph}) \X ins}

\* INSERT { GRAPH ?g { ins } }
InsertTemplate(sols, ins) ==
  {<<sol[1], t[1], t[2], t[3]>> : <<sol, t>> \in sols \X ins}

\* Insertions first, then deletions.
DeleteInsertWhere_insertFirst(st, s, ins) ==
  LET sols == WhereStatus(st, s)
  IN (st \cup InsertTemplate(sols, ins)) \ DeleteStatus(s, sols)

\* DELETE {...} INSERT {...} WHERE {...}: deletions first, then insertions,
\* both instantiated for every solution of the WHERE pattern.
DeleteInsertWhere(st, s, ins) ==
  LET sols == WhereStatus(st, s)
  IN (st \ DeleteStatus(s, sols)) \cup InsertTemplate(sols, ins)

(***************************************************************************)
(* Updates whose templates hold variables (files.update, files.remove).    *)
(* A solution of a WHERE pattern is a function from variable names to       *)
(* values; a template triple is instantiated for a solution only if the     *)
(* solution binds every variable of the triple.                             *)
(***************************************************************************)
Variable(name) == <<"Variable", name, 0>>
IsVariable(x) == x[1] = "Variable"
PredicateVariables == {"?pp", "?pl"}
FileDataObject == namedNode("nfo:FileDataObject")

Bound(x, sol) == ~IsVariable(x) \/ x[2] \in DOMAIN sol
BoundP(p, sol) == p \notin PredicateVariables \/ p \in DOMAIN sol
Subst(x, sol) == IF IsVariable(x) THEN sol[x[2]] ELSE x
SubstP(p, sol) == IF p \in PredicateVariables THEN sol[p] ELSE p

\* The quads of GRAPH ?g { template } for one solution.
Instantiate(template, sol) ==
  {<<sol["?g"], Subst(t[1], sol), SubstP(t[2], sol), Subst(t[3], sol)>> :
     t \in {u \in template :
              Bound(u[1], sol) /\ BoundP(u[2], sol) /\ Bound(u[3], sol)}}

\* DELETE { dels } INSERT { ins } WHERE { ... } for the solutions sols.
ModifyWhere(st, dels, ins, sols) ==
  (st \ UNION {Instantiate(dels, sol) : sol \in sols})
    \cup UNION {Instantiate(ins, sol) : sol \in sols}

\* A pattern without the dataSource link between the two Files.
FilePairSolutions_noLink(st, logicalFile) ==
  {("?g" :> q[1]) @@ ("?physicalFile" :> q[2]) @@ ("?logicalFile" :> logicalFile) :
     q \in {x \in st :
              /\ x[3] = "rdf:type"
              /\ x[4] = FileDataObject
              /\ <<x[1], logicalFile, "rdf:type", FileDataObject>> \in st}}

\* WHERE { GRAPH ?g { BIND (logicalFile as ?logicalFile)
\*   ?physicalFile a nfo:FileDataObject ; nie:dataSource ?logicalFile .
\*   ?logicalFile a nfo:FileDataObject } }
FilePairSolutions(st, logicalFile) ==
  {("?g" :> q[1]) @@ ("?physicalFile" :> q[2]) @@ ("?logicalFile" :> logicalFile) :
     q \in {x \in st :
              /\ x[3] = "nie:dataSource"
              /\ x[4] = logicalFile
              /\ <<x[1], x[2], "rdf:type", FileDataObject>> \in st
              /\ <<x[1], logicalFile, "rdf:type", FileDataObject>> \in st}}

\* The DELETE template of files.update: ?modified and ?fileSize occur in no
\* pattern of its WHERE clause.
FileUpdateDelete ==
  {<<Variable("?physicalFile"), "dct:modified", Variable("?modified")>>,
   <<Variable("?physicalFile"), "nfo:fileSize", Variable("?fileSize")>>,
   <<Variable("?logicalFile"), "dct:modified", Variable("?modified")>>,
   <<Variable("?logicalFile"), "nfo:fileSize", Variable("?fileSize")>>}

\* The WHERE clause of files.remove: the pair pattern, with
\* ?physicalFile ?pp ?op and ?logicalFile ?pl ?ol in the same graph.
FileRemoveSolutions(st, logicalFile) ==
  UNION {{pair @@ ("?pp" :> fp[3]) @@ ("?op" :> fp[4])
               @@ ("?pl" :> fl[3]) @@ ("?ol" :> fl[4]) :
            <<fp, fl>> \in
              {x \in st : x[1] = pair["?g"] /\ x[2] = pair["?physicalFile"]}
                \X {x \in st : x[1] = pair["?g"] /\ x[2] = logicalFile}} :
         pair \in FilePairSolutions(st, logicalFile)}

\* A template that names only the physical File.
FileRemoveDelete_physicalOnly ==
  {<<Variable("?physicalFile"), "?pp", Variable("?op")>>}

\* A template that names only the logical File.
FileRemoveDelete_logicalOnly ==
  {<<Variable("?logicalFile"), "?pl", Variable("?ol")>>}

\* The DELETE template of files.remove.
FileRemoveDelete ==
  {<<Variable("?physicalFile"), "?pp", Variable("?op")>>,
   <<Variable("?logicalFile"), "?pl", Variable("?ol")>>}

updateSudo(st, r) ==
  CASE r.op \in InsertDataOps -> InsertData(st, r.g, r.ins)
    [] r.op = "updateFile" ->
         ModifyWhere(st, FileUpdateDelete, r.ins, FilePairSolutions(st, r.s))
    [] r.op = "removeFile" ->
         ModifyWhere(st, FileRemoveDelete, {}, FileRemoveSolutions(st, r.s))
    [] OTHER -> DeleteInsertWhere(st, r.s, r.ins)

Matched(st, r) ==
  CASE r.op \in InsertDataOps -> TRUE
    [] r.op \in FileOps -> FilePairSolutions(st, r.s) # {}
    [] OTHER -> WhereStatus(st, r.s) # {}

\* What the caller gets once the await of update r has resolved: the
\* reference of the entity from a create, undefined from the other operations.
Returned(r) == IF r.op \in InsertDataOps THEN r.s ELSE NoTerm

\* A failure that is reported although the store has executed the update.
Fail_executed(r) ==
  /\ store' = updateSudo(store, r)
  /\ last' = [req |-> r, matched |-> FALSE, failed |-> TRUE, returned |-> NoTerm]

\* The store executes update r; `last` records it and whether its pattern
\* matched.
Execute(r) ==
  /\ store' = updateSudo(store, r)
  /\ last' = [req |-> r, matched |-> Matched(store, r), failed |-> FALSE,
              returned |-> Returned(r)]

\* The remote call of update r fails (network, store-side rejection): the
\* store executes nothing of it and the error propagates to the caller.
Fail(r) ==
  /\ store' = store
  /\ last' = [req |-> r, matched |-> FALSE, failed |-> TRUE, returned |-> NoTerm]

(***************************************************************************)
(* jobs.create                                                             *)
(***************************************************************************)
\* A Job linked to its creator where the activity belongs.
JobFacts_generatedByCreator(job, jobUuid, now, operation, activity, creator, cogsOperation) ==
  {<<job, "rdf:type", namedNode("cogs:Job")>>,
   <<job, "mu:uuid", literalUuid(jobUuid)>>,
   <<job, "dct:creator", creator>>,
   <<job, "adms:status", JOB_STATUSES.busy>>,
   <<job, "dct:created", literalDateTime(now)>>,
   <<job, "dct:modified", literalDateTime(now)>>,
   <<job, "task:operation", operation>>,
   <<job, "task:cogsOperation", cogsOperation>>,
   <<job, "prov:generatedBy", creator>>}

JobFacts(job, jobUuid, now, operation, activity, creator, cogsOperation) ==
  {<<job, "rdf:type", namedNode("cogs:Job")>>,
   <<job, "mu:uuid", literalUuid(jobUuid)>>,
   <<job, "dct:creator", creator>>,
   <<job, "adms:status", JOB_STATUSES.busy>>,
   <<job, "dct:created", literalDateTime(now)>>,
   <<job, "dct:modified", literalDateTime(now)>>,
   <<job, "task:operation", operation>>,
   <<job, "task:cogsOperation", cogsOperation>>,
   <<job, "prov:generatedBy", activity>>}

\* The INSERT DATA jobs.create builds at time now; the request also records
\* the activity argument.
jobs_createRequest(operation, activity, creator, cogsOperation, graph, now) ==
  LET jobUuid == nextUuid
      job == BASE_TABLE(jobUuid)
  IN Request("createJob", graph, job, now, JOB_STATUSES.busy, NoTerm, {}, {},
             JobFacts(job, jobUuid, now, operation, activity, creator,
                      cogsOperation))
       @@ [activity |-> activity]

jobs_create(operation, activity, creator, cogsOperation, graph) ==
  \E now \in Readings :
    /\ nextUuid' = nextUuid + 1
    /\ clock' = now + 1
    /\ UNCHANGED <<deltaVars, fileVars>>
    /\ Execute(jobs_createRequest(operation, activity, creator, cogsOperation,
                                  graph, now))
    /\ UNCHANGED pending

\* jobs.create when its one remote call fails.
jobs_create_rejected(operation, activity, creator, cogsOperation, graph) ==
  \E now \in Readings :
    /\ nextUuid' = nextUuid + 1
    /\ clock' = now + 1
    /\ UNCHANGED <<deltaVars, fileVars>>
    /\ Fail(jobs_createRequest(operation, activity, creator, cogsOperation,
                               graph, now))
    /\ UNCHANGED pending

CreateJob ==
  \E activity \in Activities :
    jobs_create(OPERATIONS_automaticSubmissionFlow, activity, Creator,
                COGS_OPERATION_transformation, Graph)

CreateJobRejected ==
  \E activity \in Activities :
    jobs_create_rejected(OPERATIONS_automaticSubmissionFlow, activity, Creator,
                         COGS_OPERATION_transformation, Graph)

(***************************************************************************)
(* jobs.updateStatus                                                       *)
(***************************************************************************)
\* The status and modified triples every status update inserts.
StatusTriples(s, status, now) ==
  {<<s, "adms:status", status>>,
   <<s, "dct:modified", literalDateTime(now)>>}

\* errorTriple of jobs.updateStatus
JobErrorTriple(job, status, error) ==
  IF status = JOB_STATUSES_fail /\ error # NoTerm
  THEN {<<job, "task:error", error>>}
  ELSE {}

jobs_updateStatus(job, status, error) ==
  \E now \in Readings :
    /\ clock' = now + 1
    /\ UNCHANGED <<deltaVars, fileVars>>
    /\ pending' = pending \cup
         {Request("updateJobStatus", NoTerm, job, now, status, error, {}, {},
                  StatusTriples(job, status, now)
                    \cup JobErrorTriple(job, status, error))}
    /\ UNCHANGED <<store, nextUuid, last>>

\* The subjects typed cogs:Job in the store.
JobsInStore ==
  {q[2] : q \in {r \in store : r[3] = "rdf:type" /\ r[4] = namedNode("cogs:Job")}}

\* A Job the callers know, or an IRI of no Job, with an error.
UpdateJobStatus ==
  LET known == JobsInStore
  IN \E job \in known \cup {BASE_TABLE(0)}, status \in JobStatusValues,
        error \in OptErrors :
       /\ job \notin known => status = JOB_STATUSES.failed /\ error # NoTerm
       /\ jobs_updateStatus(job, status, error)

(***************************************************************************)
(* tasks.create                                                            *)
(***************************************************************************)
OPERATIONS_download == namedNode("tasko:download")
COGS_OPERATION_webServiceLookup == namedNode("cogs:WebServiceLookup")
Files == {namedNode("file:F1"), namedNode("file:F2")}
RemoteDataObjects == {namedNode("rdo:R1"), namedNode("rdo:R2")}

\* The `inputs` and `results` arguments the callers pass.  An absent argument
\* and absent fields are read as empty lists (`inputs?.files || []`).
NoInputs == [files |-> {}, remoteDataObjects |-> {}]
Both == [files |-> {namedNode("file:F1")}, remoteDataObjects |-> {namedNode("rdo:R1")}]
FilesOnly == [files |-> Files, remoteDataObjects |-> {}]
RemoteOnly == [files |-> {}, remoteDataObjects |-> RemoteDataObjects]
InputChoices == {NoInputs, FilesOnly, RemoteOnly, Both}

\* A collection without its creator.
HarvestingCollectionFacts_noCreator(container, hc, hcUuid, creator, rdos) ==
  IF rdos = {} THEN {}
  ELSE {<<container, "task:hasHarvestingCollection", hc>>,
        <<hc, "rdf:type", namedNode("hrvst:HarvestingCollection")>>,
        <<hc, "mu:uuid", literalUuid(hcUuid)>>}
         \cup {<<hc, "dct:hasPart", rdo>> : rdo \in rdos}

\* The nested HarvestingCollection of a container (tasks.js 71-103, 190-222).
HarvestingCollectionFacts(container, hc, hcUuid, creator, rdos) ==
  IF rdos = {} THEN {}
  ELSE {<<container, "task:hasHarvestingCollection", hc>>,
        <<hc, "rdf:type", namedNode("hrvst:HarvestingCollection")>>,
        <<hc, "mu:uuid", literalUuid(hcUuid)>>,
        <<hc, "dct:creator", creator>>}
         \cup {<<hc, "dct:hasPart", rdo>> : rdo \in rdos}

\* The container node with its hasFile links.
ContainerFacts(container, containerUuid, files) ==
  {<<container, "rdf:type", namedNode("nfo:DataContainer")>>,
   <<container, "mu:uuid", literalUuid(containerUuid)>>}
    \cup {<<container, "task:hasFile", file>> : file \in files}

\* A container that is built whatever the inputs are.
InputTriples_always(task, firstUuid, creator, files, rdos) ==
  ContainerFacts(BASE_TABLE(firstUuid), firstUuid, files)
    \cup HarvestingCollectionFacts(BASE_TABLE(firstUuid),
           BASE_TABLE(firstUuid + 1), firstUuid + 1, creator, rdos)

\* inputTriples of tasks.create: the writer holds the container and its
\* collection; no quad of it has the task as subject.
InputTriples(task, firstUuid, creator, files, rdos) ==
  IF files # {} \/ rdos # {}
  THEN ContainerFacts(BASE_TABLE(firstUuid), firstUuid, files)
         \cup HarvestingCollectionFacts(BASE_TABLE(firstUuid),
                BASE_TABLE(firstUuid + 1), firstUuid + 1, creator, rdos)
  ELSE {}

\* The number of uuids a container with these members draws.
ContainerUuids(files, rdos) ==
  IF files = {} /\ rdos = {} THEN 0 ELSE IF rdos = {} THEN 1 ELSE 2

TaskFacts(task, taskUuid, status, now, cogsOperation, operation, creator, index, job) ==
  {<<task, "rdf:type", namedNode("task:Task")>>,
   <<task, "mu:uuid", literalUuid(taskUuid)>>,
   <<task, "adms:status", status>>,
   <<task, "dct:created", literalDateTime(now)>>,
   <<task, "dct:modified", literalDateTime(now)>>,
   <<task, "task:cogsOperation", cogsOperation>>,
   <<task, "task:operation", operation>>,
   <<task, "dct:creator", creator>>,
   <<task, "task:index", literalIndex(index)>>,
   <<task, "dct:isPartOf", job>>}

\* The INSERT DATA tasks.create builds at time now.
tasks_createRequest(operation, creator, status, index, job, inputs, cogsOperation, graph, now) ==
  LET files == inputs.files
      remoteDataObjects == inputs.remoteDataObjects
      taskUuid == nextUuid
      task == BASE_TABLE(taskUuid)
  IN Request("createTask", graph, task, now, status, NoTerm,
             files, remoteDataObjects,
             TaskFacts(task, taskUuid, status, now, cogsOperation, operation,
                       creator, index, job)
               \cup InputTriples(task, taskUuid + 1, creator, files,
                                 remoteDataObjects))

tasks_create(operation, creator, status, index, job, inputs, cogsOperation, graph) ==
  \E now \in Readings :
    /\ clock' = now + 1
    /\ UNCHANGED <<deltaVars, fileVars>>
    /\ nextUuid' = nextUuid + 1 + ContainerUuids(inputs.files, inputs.remoteDataObjects)
    /\ Execute(tasks_createRequest(operation, creator, status, index, job,
                                   inputs, cogsOperation, graph, now))
    /\ UNCHANGED pending

\* tasks.create when its one remote call fails.
tasks_create_rejected(operation, creator, status, index, job, inputs, cogsOperation, graph) ==
  \E now \in Readings :
    /\ clock' = now + 1
    /\ UNCHANGED <<deltaVars, fileVars>>
    /\ nextUuid' = nextUuid + 1 + ContainerUuids(inputs.files, inputs.remoteDataObjects)
    /\ Fail(tasks_createRequest(operation, creator, status, index, job,
                                inputs, cogsOperation, graph, now))
    /\ UNCHANGED pending

TaskCreateStatuses == {TASK_STATUSES.scheduled}

CreateTask ==
  \E status \in TaskCreateStatuses, job \in JobsInStore \cup {BASE_TABLE(0)},
     inputs \in InputChoices :
    tasks_create(OPERATIONS_download, Creator, status, 0, job, inputs,
                 COGS_OPERATION_webServiceLookup, Graph)

\* The call whose failure CreateTaskRejected takes, succeeding.
CreateTaskBoth ==
  \E job \in JobsInStore \cup {BASE_TABLE(0)} :
    tasks_create(OPERATIONS_download, Creator, TASK_STATUSES.scheduled, 0, job,
                 Both, COGS_OPERATION_webServiceLookup, Graph)

CreateTaskRejected ==
  \E job \in JobsInStore \cup {BASE_TABLE(0)} :
    tasks_create_rejected(OPERATIONS_download, Creator, TASK_STATUSES.scheduled,
                          0, job, Both, COGS_OPERATION_webServiceLookup, Graph)

(***************************************************************************)
(* tasks.updateStatus                                                      *)
(***************************************************************************)
\* An error quad that is written whatever the status is.
TaskErrorTriple_anyStatus(task, status, error) ==
  IF error # NoTerm THEN {<<task, "task:error", error>>} ELSE {}

\* The error quad of tasks.updateStatus (tasks.js 156-157).
TaskErrorTriple(task, status, error) ==
  IF status = JOB_STATUSES.failed /\ error # NoTerm
  THEN {<<task, "task:error", error>>}
  ELSE {}

\* A results container that is not linked to the task.
ResultsTriples_noLink(task, status, firstUuid, creator, files, rdos) ==
  IF status = JOB_STATUSES.success /\ (files # {} \/ rdos # {})
  THEN ContainerFacts(BASE_TABLE(firstUuid), firstUuid, files)
         \cup HarvestingCollectionFacts(BASE_TABLE(firstUuid),
                BASE_TABLE(firstUuid + 1), firstUuid + 1, creator, rdos)
  ELSE {}

\* The results container of tasks.updateStatus (tasks.js 159-223).
ResultsTriples(task, status, firstUuid, creator, files, rdos) ==
  IF status = JOB_STATUSES.success /\ (files # {} \/ rdos # {})
  THEN {<<task, "task:resultsContainer", BASE_TABLE(firstUuid)>>}
         \cup ContainerFacts(BASE_TABLE(firstUuid), firstUuid, files)
         \cup HarvestingCollectionFacts(BASE_TABLE(firstUuid),
                BASE_TABLE(firstUuid + 1), firstUuid + 1, creator, rdos)
  ELSE {}

ResultsUuids(status, files, rdos) ==
  IF status = JOB_STATUSES.success THEN ContainerUuids(files, rdos) ELSE 0

tasks_updateStatus(task, status, creator, results, error) ==
  LET files == results.files
      remoteDataObjects == results.remoteDataObjects
  IN \E now \in Readings :
       /\ clock' = now + 1
       /\ UNCHANGED <<deltaVars, fileVars>>
       /\ nextUuid' = nextUuid + ResultsUuids(status, files, remoteDataObjects)
       /\ pending' = pending \cup
            {Request("updateTaskStatus", NoTerm, task, now, status, error,
                     files, remoteDataObjects,
                     StatusTriples(task, status, now)
                       \cup TaskErrorTriple(task, status, error)
                       \cup ResultsTriples(task, status, nextUuid, creator,
                                           files, remoteDataObjects))}
       /\ UNCHANGED <<store, last>>

\* The subjects typed task:Task in the store.
TasksInStore ==
  {q[2] : q \in {r \in store : r[3] = "rdf:type" /\ r[4] = namedNode("task:Task")}}

\* The argument combinations <<status, results, error>> the callers try: one
\* for every update the function can build, some of them passing arguments
\* the status does not call for.
Error1 == namedNode("errors:E1")
TaskUpdateArgs ==
  {<<TASK_STATUSES.scheduled, NoInputs, NoTerm>>,
   <<TASK_STATUSES.busy, Both, Error1>>,
   <<TASK_STATUSES.failed, NoInputs, NoTerm>>,
   <<TASK_STATUSES.failed, Both, Error1>>,
   <<TASK_STATUSES.success, NoInputs, Error1>>,
   <<TASK_STATUSES.success, FilesOnly, NoTerm>>,
   <<TASK_STATUSES.success, RemoteOnly, NoTerm>>,
   <<TASK_STATUSES.success, Both, NoTerm>>}

\* A Task the callers know, or an IRI of no Task, with results and an error.
UpdateTaskStatus ==
  LET known == TasksInStore
  IN \E task \in known \cup {BASE_TABLE(0)}, a \in TaskUpdateArgs :
       /\ task \notin known => a[2] = Both /\ a[1] # TASK_STATUSES.busy
       /\ tasks_updateStatus(task, a[1], Creator, a[2], a[3])

\* A Task of the store set to success with results, or to failed with an
\* error.
UpdateTaskStatusFinal ==
  \E task \in TasksInStore :
    \/ tasks_updateStatus(task, TASK_STATUSES.success, Creator, Both, NoTerm)
    \/ tasks_updateStatus(task, TASK_STATUSES.failed, Creator, NoInputs, Error1)

\* A Job of the store set to success.
UpdateJobStatusFinal ==
  \E job \in JobsInStore : jobs_updateStatus(job, JOB_STATUSES.success, NoTerm)

(***************************************************************************)
(* files.create                                                            *)
(***************************************************************************)
\* A term object in a template string or as the argument of String.concat
\* is converted by Object.prototype.toString: the terms of N3 define no
\* toString of their own.
objectToString(term) == "[object Object]"

\* literal(value, languageOrDatatype) with a string as second argument makes
\* a language-tagged literal; cts.TYPES.integer is a string.
literalTagged(n, tag) == <<"Literal", "@" \o tag, n>>
TYPES_integer == "xsd:integer"

\* path.replace('/share/', 'share://')
ReplaceShare(pathPrefix) ==
  IF pathPrefix = "/share/submissions/" THEN "share://submissions/"
  ELSE pathPrefix

\* cts.FORMATS[extension]
FORMATS(extension) == IF extension = "ttl" THEN "text/turtle" ELSE "undefined"

FileFacts(file, fileUuid, filename, creator, now, format, size, extension) ==
  {<<file, "rdf:type", namedNode("nfo:FileDataObject")>>,
   <<file, "mu:uuid", literalUuid(fileUuid)>>,
   <<file, "nfo:fileName", literal(filename)>>,
   <<file, "dct:creator", creator>>,
   <<file, "dct:created", literalDateTime(now)>>,
   <<file, "dct:modified", literalDateTime(now)>>,
   <<file, "dct:format", literal(format)>>,
   <<file, "nfo:fileSize", literalTagged(size, TYPES_integer)>>,
   <<file, "dbpedia:fileExtension", literal(extension)>>}

\* The identifiers files.create derives for the pair.
PhysicalFile(pathPrefix, physicalUuid, extension) ==
  namedNode(ReplaceShare(pathPrefix) \o objectToString(literalUuid(physicalUuid))
              \o "." \o extension)

\* A logical File named like the physical one.
LogicalFile_asPhysical(logicalUuid) ==
  PhysicalFile("/share/submissions/", logicalUuid, "ttl")

LogicalFile(logicalUuid) ==
  namedNode("asj:" \o objectToString(literalUuid(logicalUuid)))

\* The INSERT DATA files.create builds at time now.
files_createRequest(pathPrefix, extension, size, creator, graph, now) ==
  LET physicalUuid == nextUuid
      logicalUuid == nextUuid + 1
      filename == objectToString(literalUuid(physicalUuid)) \o "." \o extension
      physical == PhysicalFile(pathPrefix, physicalUuid, extension)
      logical == LogicalFile(logicalUuid)
  IN Request("createFile", graph, logical, now, NoTerm, NoTerm,
             {physical}, {},
             {<<physical, "nie:dataSource", logical>>}
               \cup FileFacts(physical, physicalUuid, filename, creator, now,
                              FORMATS(extension), size, extension)
               \cup FileFacts(logical, logicalUuid, filename, creator, now,
                              FORMATS(extension), size, extension))

files_create(pathPrefix, extension, size, creator, graph) ==
  \E now \in Readings :
    /\ clock' = now + 1
    /\ UNCHANGED <<deltaVars, fileVars>>
    /\ nextUuid' = nextUuid + 2
    /\ Execute(files_createRequest(pathPrefix, extension, size, creator, graph, now))
    /\ UNCHANGED pending

\* files.create when its one remote call fails.
files_create_rejected(pathPrefix, extension, size, creator, graph) ==
  \E now \in Readings :
    /\ clock' = now + 1
    /\ UNCHANGED <<deltaVars, fileVars>>
    /\ nextUuid' = nextUuid + 2
    /\ Fail(files_createRequest(pathPrefix, extension, size, creator, graph, now))
    /\ UNCHANGED pending

FileSizes == {1, 2}

CreateFile ==
  \E size \in FileSizes :
    files_create("/share/submissions/", "ttl", size, Creator, Graph)

CreateFileRejected ==
  \E size \in FileSizes :
    files_create_rejected("/share/submissions/", "ttl", size, Creator, Graph)

(***************************************************************************)
(* files.update, files.remove                                              *)
(***************************************************************************)
\* The INSERT template of files.update.
FileUpdateInsert(now, size) ==
  {<<Variable("?physicalFile"), "dct:modified", literalDateTime(now)>>,
   <<Variable("?physicalFile"), "nfo:fileSize", literalTagged(size, TYPES_integer)>>,
   <<Variable("?logicalFile"), "dct:modified", literalDateTime(now)>>,
   <<Variable("?logicalFile"), "nfo:fileSize", literalTagged(size, TYPES_integer)>>}

files_update(logicalFile, size) ==
  \E now \in Readings :
    /\ clock' = now + 1
    /\ UNCHANGED <<deltaVars, fileVars>>
    /\ pending' = pending \cup
         {Request("updateFile", NoTerm, logicalFile, now, NoTerm, NoTerm,
                  {}, {}, FileUpdateInsert(now, size))}
    /\ UNCHANGED <<store, nextUuid, last>>

\* files.remove reads no clock; `now` only numbers the call.
files_removeRequest(logicalFile, now) ==
  Request("removeFile", NoTerm, logicalFile, now, NoTerm, NoTerm, {}, {}, {})

files_remove(logicalFile) ==
  \E now \in Readings :
    /\ clock' = now + 1
    /\ UNCHANGED <<deltaVars, fileVars>>
    /\ pending' = pending \cup {files_removeRequest(logicalFile, now)}
    /\ UNCHANGED <<store, nextUuid, last>>

\* The file IRIs the callers hold: those of the pairs in the store, logical
\* and physical, and an IRI of no file.
FileTargets ==
  LET links == {q \in store : q[3] = "nie:dataSource"}
  IN {q[4] : q \in links} \cup {q[2] : q \in links} \cup {BASE_TABLE(0)}

UpdateFile ==
  \E logicalFile \in FileTargets, size \in FileSizes :
    files_update(logicalFile, size)

RemoveFile ==
  \E logicalFile \in FileTargets : files_remove(logicalFile)

(***************************************************************************)
(* asfFiles: the File operations that also read and write content on the   *)
(* shared volume.  A call is one step up to each of its awaits on the file *)
(* system; `calls` holds the calls that wait for such an await.            *)
(***************************************************************************)
\* A path is <<text, n>>, as the text and the number of an IRI.
\* files.create: path = pathPrefix.concat(filename.value)
PhysicalFilePath(pathPrefix, physicalUuid, extension) ==
  <<pathPrefix \o objectToString(literalUuid(physicalUuid)) \o "." \o extension, 0>>

\* physicalFile.value.replace('share://', '/share/')
ReplaceShareBack(physicalFile) ==
  IF physicalFile[2] = "share://submissions/[object Object].ttl"
  THEN <<"/share/submissions/[object Object].ttl", physicalFile[3]>>
  ELSE <<physicalFile[2], physicalFile[3]>>

\* Buffer.from(content) and Buffer.byteLength(buffer): a content is named by
\* a number and holds that many bytes.
Contents == {1, 2}
byteLength(content) == content

\* A call of fn waiting for the file system to act on path; `now` numbers
\* the call.
Call(fn, now, path, logicalFile, content) ==
  [fn |-> fn, now |-> now, path |-> path, logicalFile |-> logicalFile,
   content |-> content]

\* The error of a content operation reaching its caller.
Raise(fn, file, now) ==
  last' = [req |-> Request(fn, NoTerm, file, now, NoTerm, NoTerm, {}, {}, {}),
           matched |-> FALSE, failed |-> TRUE, returned |-> NoTerm]

\* fs.writeFile(path, buffer) and fs.unlink(path) on the volume.
writeFile(volume, path, content) ==
  {f \in volume : f.path # path} \cup {[path |-> path, content |-> content]}
unlink(volume, path) == {f \in volume : f.path # path}
Exists(volume, path) == \E f \in volume : f.path = path

\* createFromContent whose insert fails and that writes its bytes all the same.
asfFiles_createFromContent_written(content, creator, graph) ==
  \E now \in Readings :
    /\ clock' = now + 1
    /\ nextUuid' = nextUuid + 2
    /\ Fail(files_createRequest("/share/submissions/", "ttl", byteLength(content),
                                creator, graph, now))
    /\ disk' = writeFile(disk, PhysicalFilePath("/share/submissions/", nextUuid, "ttl"),
                         content)
    /\ UNCHANGED <<pending, deltaVars, calls>>

\* createFromContent up to fs.writeFile: files.create has inserted the pair
\* and returned its path.
asfFiles_createFromContent(content, creator, graph) ==
  \E now \in Readings :
    /\ clock' = now + 1
    /\ nextUuid' = nextUuid + 2
    /\ Execute(files_createRequest("/share/submissions/", "ttl", byteLength(content),
                                   creator, graph, now))
    /\ calls' = calls \cup
         {Call("createFromContent", now,
               PhysicalFilePath("/share/submissions/", nextUuid, "ttl"),
               LogicalFile(nextUuid + 1), content)}
    /\ UNCHANGED <<pending, deltaVars, disk>>

\* createFromContent when files.create rejects: the await throws and the
\* function is left before fs.writeFile.
asfFiles_createFromContent_rejected(content, creator, graph) ==
  \E now \in Readings :
    /\ clock' = now + 1
    /\ nextUuid' = nextUuid + 2
    /\ Fail(files_createRequest("/share/submissions/", "ttl", byteLength(content),
                                creator, graph, now))
    /\ UNCHANGED <<pending, deltaVars, disk, calls>>

\* fs.writeFile of createFromContent resolves: filesData is returned.
asfFiles_writeFile(c) ==
  /\ c.fn = "createFromContent"
  /\ calls' = calls \ {c}
  /\ disk' = writeFile(disk, c.path, c.content)
  /\ UNCHANGED <<store, pending, clock, nextUuid, last, deltaVars>>

\* fs.writeFile of createFromContent rejects: the error reaches the caller,
\* nothing is caught and nothing is undone.
asfFiles_writeFile_rejected(c) ==
  /\ c.fn = "createFromContent"
  /\ calls' = calls \ {c}
  /\ Raise(c.fn, c.logicalFile, c.now)
  /\ UNCHANGED <<store, pending, clock, nextUuid, deltaVars, disk>>

CreateFromContent ==
  \E content \in Contents : asfFiles_createFromContent(content, Creator, Graph)

CreateFromContentRejected ==
  \E content \in Contents : asfFiles_createFromContent_rejected(content, Creator, Graph)

WriteFile == \E c \in calls : asfFiles_writeFile(c)

WriteFileRejected == \E c \in calls : asfFiles_writeFile_rejected(c)

\* SELECT ?physicalFile WHERE { ?physicalFile nie:dataSource logicalFile } LIMIT 1
PhysicalFilesOf(st, logicalFile) ==
  {q[2] : q \in {x \in st : x[3] = "nie:dataSource" /\ x[4] = logicalFile}}

\* SELECT ?logicalFile WHERE { physicalFile nie:dataSource ?logicalFile } LIMIT 1
LogicalFilesOf(st, physicalFile) ==
  {q[4] : q \in {x \in st : x[3] = "nie:dataSource" /\ x[2] = physicalFile}}

\* removeFromLogicalFile up to fs.unlink.  parsedResults[0]?.physicalFile is
\* undefined when nothing is linked, and reading .value of it throws.
asfFiles_removeFromLogicalFile(logicalFile) ==
  \E now \in Readings :
    /\ clock' = now + 1
    /\ IF PhysicalFilesOf(store, logicalFile) = {}
       THEN /\ Raise("removeFromLogicalFile", logicalFile, now)
            /\ UNCHANGED calls
       ELSE /\ \E physicalFile \in PhysicalFilesOf(store, logicalFile) :
                 calls' = calls \cup
                   {Call("removeFromLogicalFile", now, ReplaceShareBack(physicalFile),
                         logicalFile, 0)}
            /\ UNCHANGED last
    /\ UNCHANGED <<store, pending, nextUuid, deltaVars, disk>>

\* removeFromPhysicalFile up to fs.unlink.  The path comes from the argument;
\* logicalFile is undefined when nothing is linked.
asfFiles_removeFromPhysicalFile(physicalFile) ==
  \E now \in Readings :
    /\ clock' = now + 1
    /\ \E logicalFile \in IF LogicalFilesOf(store, physicalFile) = {}
                          THEN {NoTerm}
                          ELSE LogicalFilesOf(store, physicalFile) :
         calls' = calls \cup
           {Call("removeFromPhysicalFile", now, ReplaceShareBack(physicalFile),
                 logicalFile, 0)}
    /\ UNCHANGED <<store, pending, nextUuid, last, deltaVars, disk>>

RemovingFunctions == {"removeFromLogicalFile", "removeFromPhysicalFile"}

\* fs.unlink resolves and the function goes on to files.remove(logicalFile);
\* with logicalFile undefined the update text is no SPARQL and the store
\* rejects it.
asfFiles_unlink(c) ==
  /\ c.fn \in RemovingFunctions
  /\ Exists(disk, c.path)
  /\ calls' = calls \ {c}
  /\ disk' = unlink(disk, c.path)
  /\ IF c.logicalFile = NoTerm
     THEN /\ Fail(files_removeRequest(c.logicalFile, c.now))
          /\ UNCHANGED pending
     ELSE /\ pending' = pending \cup {files_removeRequest(c.logicalFile, c.now)}
          /\ UNCHANGED <<store, last>>
  /\ UNCHANGED <<clock, nextUuid, deltaVars>>

\* A removal that goes on to files.remove although fs.unlink has rejected.
asfFiles_unlink_rejected_removes(c) ==
  /\ c.fn \in RemovingFunctions
  /\ calls' = calls \ {c}
  /\ Raise(c.fn, c.logicalFile, c.now)
  /\ pending' = pending \cup {files_removeRequest(c.logicalFile, c.now)}
  /\ UNCHANGED <<store, clock, nextUuid, deltaVars, disk>>

\* fs.unlink rejects (no content at the path, no permission): the error
\* reaches the caller before files.remove is called.
asfFiles_unlink_rejected(c) ==
  /\ c.fn \in RemovingFunctions
  /\ calls' = calls \ {c}
  /\ Raise(c.fn, c.logicalFile, c.now)
  /\ UNCHANGED <<store, pending, clock, nextUuid, deltaVars, disk>>

RemoveFromLogicalFile ==
  \E logicalFile \in FileTargets : asfFiles_removeFromLogicalFile(logicalFile)

RemoveFromPhysicalFile ==
  \E physicalFile \in FileTargets : asfFiles_removeFromPhysicalFile(physicalFile)

Unlink == \E c \in calls : asfFiles_unlink(c)

UnlinkRejected == \E c \in calls : asfFiles_unlink_rejected(c)

(***************************************************************************)
(* errors.create.  The sources hold two releases of the errors module: the *)
(* one built on N3 and rdf-string-ttl (create with a creator), and the one  *)
(* built on mu (create without).                                            *)
(***************************************************************************)
\* A JavaScript string: a value that is no RDF term.
StringValue(text, n) == <<"string", text, n>>
GRAPHS_error == namedNode("graphs:error")
OSLC_Error == namedNode("oslc:Error")
Subject == literal("Automatic Submission Service")

\* rst.termToString, followed by the store reading the text back: a term is
\* rendered as itself, any other value as `undefined`.
termToString(term) ==
  IF term[1] \in {"NamedNode", "Literal", "Variable"} THEN term ELSE NoTerm

\* N3 literal(value): the value is rendered by a template string, an
\* undefined value as the text undefined.
literalOf(value) ==
  IF value = NoTerm THEN literal("undefined") ELSE literal(value[2])

\* The truthiness of a JavaScript value: undefined and the empty string are
\* falsy, every object (a term) is truthy.
Truthy(value) == value # NoTerm /\ value # StringValue("", 0)

\* The store accepts an update only if the subject of every triple is an IRI
\* (or a variable of a template).
WellFormed(ins) == \A t \in ins : t[1][1] \in {"NamedNode", "Variable"}

ErrorFacts(error, errorId, message, now, creator) ==
  {<<error, "rdf:type", OSLC_Error>>,
   <<error, "mu:uuid", errorId>>,
   <<error, "dct:subject", Subject>>,
   <<error, "oslc:message", message>>,
   <<error, "dct:created", literalDateTime(now)>>,
   <<error, "dct:creator", creator>>}

\* create of the N3 release: `error` is a string and `detail` is made a
\* literal before it is tested.
errors_create(creator, message, detail, reference) ==
  LET errorId == literalUuid(nextUuid)
      error == StringValue("errors:", nextUuid)
      messageLiteral == literalOf(message)
      detailLiteral == literalOf(detail)
      referenceTriple ==
        IF Truthy(reference)
        THEN {<<termToString(error), "dct:references", termToString(reference)>>}
        ELSE {}
      detailTriple ==
        IF Truthy(detailLiteral)
        THEN {<<termToString(error), "oslc:largePreview", termToString(detailLiteral)>>}
        ELSE {}
  IN \E now \in Readings :
       LET r == Request("createError", GRAPHS_error, termToString(error), now,
                        detail, reference, {}, {},
                        ErrorFacts(termToString(error), termToString(errorId),
                                   termToString(messageLiteral), now,
                                   termToString(creator))
                          \cup referenceTriple \cup detailTriple)
       IN /\ clock' = now + 1
          /\ UNCHANGED <<deltaVars, fileVars>>
          /\ nextUuid' = nextUuid + 1
          /\ IF WellFormed(r.ins) THEN Execute(r) ELSE Fail(r)
          /\ UNCHANGED pending

\* An error IRI that does not hold the uuid.
ErrorUri_noId(errorId) == <<"NamedNode", "errors:", 0>>

\* cts.BASE_TABLE.error.concat(errorId), escaped as an IRI.
ErrorUri(errorId) == <<"NamedNode", "errors:", errorId>>

\* create of the mu release.
errors_create_mu(message, detail, reference) ==
  LET errorId == nextUuid
      errorUri == ErrorUri(errorId)
      referenceTriple ==
        IF Truthy(reference)
        THEN {<<errorUri, "dct:references", namedNode(reference[2])>>}
        ELSE {}
      detailTriple ==
        IF Truthy(detail)
        THEN {<<errorUri, "oslc:largePreview", literal(detail[2])>>}
        ELSE {}
  IN \E now \in Readings :
       /\ clock' = now + 1
       /\ UNCHANGED <<deltaVars, fileVars>>
       /\ nextUuid' = nextUuid + 1
       /\ Execute(Request("createErrorMu", GRAPHS_error, errorUri, now,
                           detail, reference, {}, {},
                           ErrorFacts(errorUri, literalUuid(errorId),
                                      literal(message[2]), now, Creator)
                             \cup referenceTriple \cup detailTriple))
       /\ UNCHANGED pending

Message == StringValue("message", 0)
OptDetails == {NoTerm, StringValue("detail", 0)}
OptReferences == {NoTerm, namedNode("file:F1")}
OptReferencesMu == {NoTerm, StringValue("file:F1", 0)}

CreateError ==
  \E detail \in OptDetails, reference \in OptReferences :
    errors_create(Creator, Message, detail, reference)

CreateErrorMu ==
  \E detail \in OptDetails, reference \in OptReferencesMu :
    errors_create_mu(Message, detail, reference)

\* The Errors of the store.
ErrorsInStore ==
  {q[2] : q \in {r \in store : r[3] = "rdf:type" /\ r[4] = OSLC_Error}}

(***************************************************************************)
(* The other operations, called with an Error of the store wherever an     *)
(* argument takes an IRI.                                                   *)
(***************************************************************************)
CreateJobWithError ==
  \E e \in ErrorsInStore :
    jobs_create(OPERATIONS_automaticSubmissionFlow, e, e,
                COGS_OPERATION_transformation, GRAPHS_error)

CreateTaskWithError ==
  \E e \in ErrorsInStore :
    tasks_create(OPERATIONS_download, e, TASK_STATUSES.scheduled, 0, e,
                 [files |-> {e}, remoteDataObjects |-> {e}],
                 COGS_OPERATION_webServiceLookup, GRAPHS_error)

CreateFileWithError ==
  \E e \in ErrorsInStore :
    files_create("/share/submissions/", "ttl", 1, e, GRAPHS_error)

UpdateJobStatusOfError ==
  \E e \in ErrorsInStore, status \in JobStatusValues :
    jobs_updateStatus(e, status, e)

UpdateTaskStatusOfError ==
  \E e \in ErrorsInStore, status \in {TASK_STATUSES.success, TASK_STATUSES.failed} :
    tasks_updateStatus(e, status, e,
                       [files |-> {e}, remoteDataObjects |-> {e}], e)

UpdateFileOfError ==
  \E e \in ErrorsInStore, size \in FileSizes : files_update(e, size)

RemoveFileOfError ==
  \E e \in ErrorsInStore : files_remove(e)

(***************************************************************************)
(* deltas.getSubjects.  A delta message is a list of changesets, each with *)
(* a list of inserts and a list of deletes; a triple holds three terms in  *)
(* the SPARQL JSON shape (a type and a value).                              *)
(***************************************************************************)
MaxDeltaSize == 4

JsonUri(value) == [type |-> "uri", value |-> value]
JsonLiteral(value) == [type |-> "literal", value |-> value]
DeltaTriple(s, p, o) == [subject |-> s, predicate |-> p, object |-> o]
Changeset(inserts, deletes) == [inserts |-> inserts, deletes |-> deletes]

DeltaTriples ==
  {DeltaTriple(JsonUri("A"), JsonUri("p"), JsonUri("o")),
   DeltaTriple(JsonUri("B"), JsonUri("p"), JsonUri("o")),
   DeltaTriple(JsonUri("B"), JsonUri("p"), JsonUri("o2")),
   DeltaTriple(JsonUri("B"), JsonUri("p2"), JsonUri("o")),
   DeltaTriple(JsonUri("A"), JsonUri("p"), JsonLiteral("o"))}

\* The predicate and the object the messages are filtered on.
FilterPredicate == namedNode("p")
FilterObject == namedNode("o")

NoSubjects == [called |-> FALSE, fn |-> "none", matchers |-> <<>>, value |-> <<>>]

\* Array.prototype.flat, one level deep.
RECURSIVE flat(_)
flat(arrays) == IF arrays = <<>> THEN <<>> ELSE Head(arrays) \o flat(Tail(arrays))

getSubjects(ds, predicate, object) ==
  LET inserts == [i \in 1..Len(ds) |-> ds[i].inserts]
      nonEmpty == SelectSeq(inserts, LAMBDA list : Len(list) > 0)
      flattened == flat(nonEmpty)
      byPredicate == SelectSeq(flattened, LAMBDA insert : insert.predicate.value = predicate[2])
      byObject == SelectSeq(byPredicate, LAMBDA insert : insert.object.value = object[2])
  IN [i \in 1..Len(byObject) |-> namedNode(byObject[i].subject.value)]

\* The number of changesets and triples of a message.
RECURSIVE DeltaSize(_)
DeltaSize(ds) ==
  IF ds = <<>> THEN 0
  ELSE 1 + Len(Head(ds).inserts) + Len(Head(ds).deletes) + DeltaSize(Tail(ds))

Receiving == ~subjects.called /\ DeltaSize(deltas) < MaxDeltaSize

\* The notifier opens a changeset.
ReceiveChangeset ==
  /\ Receiving
  /\ deltas' = Append(deltas, Changeset(<<>>, <<>>))
  /\ UNCHANGED <<store, pending, clock, nextUuid, last, subjects, disk, calls>>

\* The notifier adds an inserted triple to the open changeset.
ReceiveInsert ==
  /\ Receiving
  /\ deltas # <<>>
  /\ \E t \in DeltaTriples :
       deltas' = [deltas EXCEPT ![Len(deltas)].inserts = Append(@, t)]
  /\ UNCHANGED <<store, pending, clock, nextUuid, last, subjects, disk, calls>>

\* The notifier adds a deleted triple to the open changeset.
ReceiveDelete ==
  /\ Receiving
  /\ deltas # <<>>
  /\ \E t \in DeltaTriples :
       deltas' = [deltas EXCEPT ![Len(deltas)].deletes = Append(@, t)]
  /\ UNCHANGED <<store, pending, clock, nextUuid, last, subjects, disk, calls>>

GetSubjects ==
  /\ ~subjects.called
  /\ subjects' = [called |-> TRUE, fn |-> "getSubjects", matchers |-> <<>>,
                  value |-> getSubjects(deltas, FilterPredicate, FilterObject)]
  /\ UNCHANGED <<store, pending, clock, nextUuid, last, deltas, disk, calls>>

\* The matcher functions a caller passes: () => true, and
\* (x) => x.value === text.
Always == [always |-> TRUE, text |-> ""]
ValueIs(text) == [always |-> FALSE, text |-> text]

\* The `value` property of a JavaScript object: undefined where the object
\* has none, as a triple of a delta message.
ValueOf(x) == IF "value" \in DOMAIN x THEN x.value ELSE "undefined"

\* The call matcher(x); a matcher with a field reads x[field].value.
Apply(matcher, x) ==
  \/ matcher.always
  \/ ValueOf(IF "field" \in DOMAIN matcher THEN x[matcher.field] ELSE x) = matcher.text

\* Array.prototype.filter calls the function with the element.
filter(array, matcher) == SelectSeq(array, LAMBDA element : Apply(matcher, element))

getSubjectsWithFunctions(ds, subjectPredicate, predicatePredicate, objectPredicate) ==
  LET inserts == [i \in 1..Len(ds) |-> ds[i].inserts]
      nonEmpty == SelectSeq(inserts, LAMBDA list : Len(list) > 0)
      flattened == flat(nonEmpty)
      filtered == filter(filter(filter(flattened, subjectPredicate),
                                predicatePredicate), objectPredicate)
  IN [i \in 1..Len(filtered) |-> namedNode(filtered[i].subject.value)]

SubjectMatchers == {Always, ValueIs("A")}
PredicateMatchers == {Always, ValueIs("p")}
ObjectMatchers == {Always, ValueIs("o")}

GetSubjectsWithFunctions ==
  /\ ~subjects.called
  /\ \E sm \in SubjectMatchers, pm \in PredicateMatchers, om \in ObjectMatchers :
       subjects' = [called |-> TRUE, fn |-> "getSubjectsWithFunctions",
                    matchers |-> <<sm, pm, om>>,
                    value |-> getSubjectsWithFunctions(deltas, sm, pm, om)]
  /\ UNCHANGED <<store, pending, clock, nextUuid, last, deltas, disk, calls>>

\* A matcher function (triple) => triple[field].value === text.
FieldValueIs(field, text) == [always |-> FALSE, text |-> text, field |-> field]

\* uti.parseSparqlJsonTerm: the RDF term of a term in the SPARQL JSON shape.
parseSparqlJsonTerm(term) ==
  IF term.type = "uri" THEN namedNode(term.value) ELSE literal(term.value)

\* uti.parseSparqlJsonBindingQuad: the triple of the parsed terms.
parseSparqlJsonBindingQuad(binding) ==
  [subject |-> parseSparqlJsonTerm(binding.subject),
   predicate |-> parseSparqlJsonTerm(binding.predicate),
   object |-> parseSparqlJsonTerm(binding.object)]

\* The arrays the three chained filters run over: each .filter(fn) calls fn
\* once on every element of the array it is called on, in order.
Invoked(ds, subjectPredicate, predicatePredicate, objectPredicate) ==
  LET inserts == [i \in 1..Len(ds) |-> ds[i].inserts]
      nonEmpty == SelectSeq(inserts, LAMBDA list : Len(list) > 0)
      flattened == flat(nonEmpty)
  IN <<flattened,
       filter(flattened, subjectPredicate),
       filter(filter(flattened, subjectPredicate), predicatePredicate)>>

\* The release of getSubjectsWithFunctions that parses with utils.js.
getSubjectsWithFunctions_parsed(ds, subjectPredicate, predicatePredicate, objectPredicate) ==
  LET inserts == [i \in 1..Len(ds) |-> ds[i].inserts]
      nonEmpty == SelectSeq(inserts, LAMBDA list : Len(list) > 0)
      flattened == flat(nonEmpty)
      filtered == filter(filter(filter(flattened, subjectPredicate),
                                predicatePredicate), objectPredicate)
  IN [i \in 1..Len(filtered) |-> parseSparqlJsonTerm(filtered[i].subject)]

\* A full-triple variant that filters on the object first and the subject
\* last.
getTriplesWithFunctions_objectFirst(ds, subjectPredicate, predicatePredicate, objectPredicate) ==
  LET inserts == [i \in 1..Len(ds) |-> ds[i].inserts]
      nonEmpty == SelectSeq(inserts, LAMBDA list : Len(list) > 0)
      flattened == flat(nonEmpty)
      filtered == filter(filter(filter(flattened, objectPredicate),
                                predicatePredicate), subjectPredicate)
  IN [value |-> [i \in 1..Len(filtered) |-> parseSparqlJsonBindingQuad(filtered[i])],
      invoked |-> <<filter(filter(flattened, objectPredicate), predicatePredicate),
                    filter(flattened, objectPredicate),
                    flattened>>]

\* getTriplesWithFunctions: the returned array, and with it the elements each
\* matcher was called on (subject, predicate and object matcher).
getTriplesWithFunctions(ds, subjectPredicate, predicatePredicate, objectPredicate) ==
  LET inserts == [i \in 1..Len(ds) |-> ds[i].inserts]
      nonEmpty == SelectSeq(inserts, LAMBDA list : Len(list) > 0)
      flattened == flat(nonEmpty)
      filtered == filter(filter(filter(flattened, subjectPredicate),
                                predicatePredicate), objectPredicate)
  IN [value |-> [i \in 1..Len(filtered) |-> parseSparqlJsonBindingQuad(filtered[i])],
      invoked |-> Invoked(ds, subjectPredicate, predicatePredicate, objectPredicate)]

\* Matchers that look at one component of the triple they are called on.
TripleSubjectMatchers == {Always, FieldValueIs("subject", "A")}
TriplePredicateMatchers == {Always, FieldValueIs("predicate", "p")}
TripleObjectMatchers == {Always, FieldValueIs("object", "o")}

GetTriplesWithFunctions ==
  /\ ~subjects.called
  /\ \E sm \in TripleSubjectMatchers, pm \in TriplePredicateMatchers,
        om \in TripleObjectMatchers :
       subjects' = [called |-> TRUE, fn |-> "getTriplesWithFunctions",
                    matchers |-> <<sm, pm, om>>,
                    value |-> getTriplesWithFunctions(deltas, sm, pm, om).value,
                    invoked |-> getTriplesWithFunctions(deltas, sm, pm, om).invoked]
  /\ UNCHANGED <<store, pending, clock, nextUuid, last, deltas, disk, calls>>

(***************************************************************************)
(* Queries.  A query without a GRAPH clause is evaluated over the union of *)
(* all graphs (mu-auth-sudo).                                              *)
(***************************************************************************)
Triples(st) == {<<q[2], q[3], q[4]>> : q \in st}

\* jobs.getStatusFromActivity: the WHERE pattern binds ?activity itself; the
\* given activity only occurs inside the OPTIONAL group, as the subject of
\* the type lookup.
StatusFromActivitySolutions(st, activity) ==
  LET T == Triples(st)
      jobs == {t[1] : t \in {x \in T : x[2] = "rdf:type" /\ x[3] = namedNode("cogs:Job")}}
      required ==
        {<<st1[1], st1[3], gb[3]>> :
           <<st1, gb>> \in
             {x \in {y \in T : y[2] = "adms:status" /\ y[1] \in jobs}
                      \X {y \in T : y[2] = "prov:generatedBy" /\ y[1] \in jobs} :
                x[1][1] = x[2][1]}}
      optional(job) ==
        {<<e[3], m[3], ty[3]>> :
           <<e, m, ty>> \in
             {x \in {y \in T : y[1] = job /\ y[2] = "task:error"}
                      \X {y \in T : y[2] = "oslc:message"}
                      \X {y \in T : y[1] = activity /\ y[2] = "rdf:type"} :
                /\ x[2][1] = x[1][3]
                /\ <<x[1][3], "rdf:type", namedNode("oslc:Error")>> \in T}}
  IN {[job |-> r[1], jobStatus |-> r[2], activity |-> r[3],
       opt |-> optional(r[1])] : r \in required}

\* The CONSTRUCT template, instantiated for one solution; the triples of
\* the OPTIONAL group only when it matched.
StatusFromActivityTemplate(sol) ==
  {<<sol.job, "rdf:type", namedNode("cogs:Job")>>,
   <<sol.job, "adms:status", sol.jobStatus>>,
   <<sol.job, "prov:generatedBy", sol.activity>>}
    \cup UNION {{<<sol.job, "task:error", o[1]>>,
                 <<o[1], "rdf:type", namedNode("oslc:Error")>>,
                 <<o[1], "oslc:message", o[2]>>,
                 <<sol.activity, "rdf:type", o[3]>>} : o \in sol.opt}

getStatusFromActivity(st, activity) ==
  UNION {StatusFromActivityTemplate(sol) :
           sol \in StatusFromActivitySolutions(st, activity)}

\* A lookup that follows every container link of the task.
getInputFilesFromTask_anyContainer(st, task) ==
  LET T == Triples(st)
      containers == {t[3] : t \in {x \in T : x[1] = task
                       /\ x[2] \in {"task:inputContainer", "task:resultsContainer"}}}
  IN {t[3] : t \in {x \in T : x[1] \in containers /\ x[2] = "task:hasFile"}}

\* asfTasks.getInputFilesFromTask
getInputFilesFromTask(st, task) ==
  LET T == Triples(st)
      containers == {t[3] : t \in {x \in T : x[1] = task /\ x[2] = "task:inputContainer"}}
  IN {t[3] : t \in {x \in T : x[1] \in containers /\ x[2] = "task:hasFile"}}

\* The values an OPTIONAL pattern binds: those of its matches, or none.
OptionalValues(matches) == IF matches = {} THEN {NoTerm} ELSE matches

\* A lookup that takes the Tasks of any Job, whatever generated the Job.
TaskInfoSolutions_anyJob(st, remoteDataObject) ==
  LET T == Triples(st)
      meldingen == {t[1] : t \in {x \in T : x[2] = "nie:hasPart" /\ x[3] = remoteDataObject}}
      chains ==
        {x \in {y \in st : y[3] = "prov:generatedBy"}
                \X {y \in st : y[3] = "dct:isPartOf"}
                \X {y \in st : y[3] = "task:operation" /\ y[4] = OPERATIONS_download}
                \X {y \in st : y[3] = "adms:status"} :
           /\ meldingen # {}
           /\ x[2][4] = x[1][2] /\ x[3][2] = x[2][2] /\ x[4][2] = x[2][2]
           /\ x[2][1] = x[1][1] /\ x[3][1] = x[1][1] /\ x[4][1] = x[1][1]}
  IN {[task |-> c[2][2], job |-> c[1][2], status |-> c[4][4],
       submissionGraph |-> c[1][1], file |-> NoTerm, errorMsg |-> NoTerm] :
        c \in chains}

\* asfTasks.getTaskInfoFromRemoteDataObject: the solutions of the SELECT.
\* ?melding nie:hasPart R is matched in any graph, the Job and Task pattern
\* in one graph ?submissionGraph.
TaskInfoSolutions(st, remoteDataObject) ==
  LET T == Triples(st)
      meldingen == {t[1] : t \in {x \in T : x[2] = "nie:hasPart" /\ x[3] = remoteDataObject}}
      chains ==
        {x \in {y \in st : y[3] = "prov:generatedBy" /\ y[4] \in meldingen}
                \X {y \in st : y[3] = "dct:isPartOf"}
                \X {y \in st : y[3] = "task:operation" /\ y[4] = OPERATIONS_download}
                \X {y \in st : y[3] = "adms:status"} :
           /\ x[2][4] = x[1][2] /\ x[3][2] = x[2][2] /\ x[4][2] = x[2][2]
           /\ x[2][1] = x[1][1] /\ x[3][1] = x[1][1] /\ x[4][1] = x[1][1]}
      files == {t[1] : t \in {x \in T : x[2] = "nie:dataSource" /\ x[3] = remoteDataObject}}
      errorMsgs == {t[3] : t \in {x \in T : x[1] = remoteDataObject /\ x[2] = "ext:cacheError"}}
  IN {[task |-> c[2][2], job |-> c[1][2], status |-> c[4][4],
       submissionGraph |-> c[1][1], file |-> f, errorMsg |-> e] :
        c \in chains, f \in OptionalValues(files), e \in OptionalValues(errorMsgs)}

\* The result `undefined`, in the shape of a record.
NoTaskInfo ==
  [task |-> NoTerm, job |-> NoTerm, status |-> NoTerm,
   submissionGraph |-> NoTerm, file |-> NoTerm, errorMsg |-> NoTerm]

\* LIMIT 1 and parsedResults[0]: any one of the solutions, undefined when
\* there is none.
getTaskInfoFromRemoteDataObject(st, remoteDataObject) ==
  IF TaskInfoSolutions(st, remoteDataObject) = {} THEN {NoTaskInfo}
  ELSE TaskInfoSolutions(st, remoteDataObject)

\* The download service links a remote data object to the activity it was
\* announced by.
AttachRemoteDataObject ==
  /\ \E activity \in Activities, r \in {namedNode("rdo:R1")} :
       /\ <<Graph, activity, "nie:hasPart", r>> \notin store
       /\ store' = store \cup {<<Graph, activity, "nie:hasPart", r>>}
  /\ UNCHANGED <<pending, clock, nextUuid, last, deltas, subjects, disk, calls>>

(***************************************************************************)
(* Creates whose write is in flight: the store has not executed the INSERT  *)
(* DATA yet, and a status update names the entity already.                  *)
(***************************************************************************)
jobs_create_inFlight(operation, activity, creator, cogsOperation, graph) ==
  \E now \in Readings :
    /\ nextUuid' = nextUuid + 1
    /\ clock' = now + 1
    /\ UNCHANGED <<deltaVars, fileVars>>
    /\ pending' = pending \cup
         {jobs_createRequest(operation, activity, creator, cogsOperation, graph, now)}
    /\ UNCHANGED <<store, last>>

tasks_create_inFlight(operation, creator, status, index, job, inputs, cogsOperation, graph) ==
  \E now \in Readings :
    /\ clock' = now + 1
    /\ UNCHANGED <<deltaVars, fileVars>>
    /\ nextUuid' = nextUuid + 1 + ContainerUuids(inputs.files, inputs.remoteDataObjects)
    /\ pending' = pending \cup
         {tasks_createRequest(operation, creator, status, index, job, inputs,
                              cogsOperation, graph, now)}
    /\ UNCHANGED <<store, last>>

CreateJobInFlight ==
  \E activity \in Activities :
    jobs_create_inFlight(OPERATIONS_automaticSubmissionFlow, activity, Creator,
                         COGS_OPERATION_transformation, Graph)

CreateTaskInFlight ==
  tasks_create_inFlight(OPERATIONS_download, Creator, TASK_STATUSES.scheduled,
                        0, BASE_TABLE(0), Both, COGS_OPERATION_webServiceLookup,
                        Graph)

\* The entities of a kind that are in the store or whose create is in flight.
Named(op, inStore) == inStore \cup {r.s : r \in {x \in pending : x.op = op}}

UpdateJobStatusEarly ==
  \E job \in Named("createJob", JobsInStore) :
    \/ jobs_updateStatus(job, JOB_STATUSES.success, NoTerm)
    \/ jobs_updateStatus(job, JOB_STATUSES.failed, Error1)

UpdateTaskStatusEarly ==
  \E task \in Named("createTask", TasksInStore) :
    \/ tasks_updateStatus(task, TASK_STATUSES.success, Creator, Both, NoTerm)
    \/ tasks_updateStatus(task, TASK_STATUSES.failed, Creator, NoInputs, Error1)

\* A store that keeps an update that matched nothing and executes it again.
Commit_replay ==
  \E r \in pending :
    /\ Execute(r)
    /\ pending' = IF Matched(store, r) THEN pending \ {r} ELSE pending
    /\ UNCHANGED <<clock, nextUuid, deltas, subjects, disk, calls>>

\* The store executes one of the updates in flight.
Commit ==
  \E r \in pending :
    /\ Execute(r)
    /\ pending' = pending \ {r}
    /\ UNCHANGED <<clock, nextUuid, deltas, subjects, disk, calls>>

\* The remote call of an update in flight fails: its await rejects and
\* nothing sends it again.
Reject ==
  \E r \in pending :
    /\ Fail(r)
    /\ pending' = pending \ {r}
    /\ UNCHANGED <<clock, nextUuid, deltas, subjects, disk, calls>>

Init ==
  /\ store = ExternalFacts
  /\ pending = {}
  /\ clock = 0
  /\ nextUuid = 1
  /\ last = NoRequest
  /\ deltas = <<>>
  /\ subjects = NoSubjects
  /\ disk = {}
  /\ calls = {}

Next ==
  \/ CreateJob
  \/ UpdateJobStatus
  \/ CreateTask
  \/ UpdateTaskStatus
  \/ CreateFile
  \/ CreateFileRejected
  \/ UpdateFile
  \/ RemoveFile
  \/ CreateError
  \/ CreateErrorMu
  \/ ReceiveChangeset
  \/ ReceiveInsert
  \/ ReceiveDelete
  \/ GetSubjects
  \/ GetSubjectsWithFunctions
  \/ CreateJobRejected
  \/ CreateTaskRejected
  \/ CreateFromContent
  \/ CreateFromContentRejected
  \/ WriteFile
  \/ WriteFileRejected
  \/ RemoveFromLogicalFile
  \/ RemoveFromPhysicalFile
  \/ Unlink
  \/ UnlinkRejected
  \/ GetTriplesWithFunctions
  \/ Commit
  \/ Reject

Spec == Init /\ [][Next]_vars

\* The Job operations alone.
NextJobs ==
  \/ CreateJob
  \/ UpdateJobStatus
  \/ Commit

SpecJobs == Init /\ [][NextJobs]_vars

\* The Task operations and files.create.
NextTasks ==
  \/ CreateTask
  \/ UpdateTaskStatus
  \/ CreateFile
  \/ Commit

SpecTasks == Init /\ [][NextTasks]_vars

\* The status updates of Tasks created with inputs.
NextResults ==
  \/ CreateTaskBoth
  \/ UpdateTaskStatus
  \/ Commit

SpecResults == Init /\ [][NextResults]_vars

\* The status operations of Jobs and Tasks, without the files.
NextStatus ==
  \/ CreateJob
  \/ UpdateJobStatus
  \/ CreateTask
  \/ UpdateTaskStatus
  \/ Commit

SpecStatus == Init /\ [][NextStatus]_vars

\* The File operations, and Tasks as other subjects of the store.
NextFiles ==
  \/ CreateTask
  \/ CreateFile
  \/ CreateFileRejected
  \/ UpdateFile
  \/ RemoveFile
  \/ Commit

SpecFiles == Init /\ [][NextFiles]_vars

\* The Error operations, and every other operation called on an Error.
NextErrors ==
  \/ CreateError
  \/ CreateErrorMu
  \/ CreateJobWithError
  \/ CreateTaskWithError
  \/ CreateFileWithError
  \/ UpdateJobStatusOfError
  \/ UpdateTaskStatusOfError
  \/ UpdateFileOfError
  \/ RemoveFileOfError
  \/ Commit

SpecErrors == Init /\ [][NextErrors]_vars

\* The Jobs and Tasks of activities and the remote data objects linked to
\* them.
NextLookup ==
  \/ CreateJob
  \/ CreateTaskBoth
  \/ UpdateTaskStatusFinal
  \/ AttachRemoteDataObject
  \/ Commit

SpecLookup == Init /\ [][NextLookup]_vars

\* Creates and status updates whose writes the store executes in any order.
NextEarly ==
  \/ CreateJobInFlight
  \/ CreateTaskInFlight
  \/ UpdateJobStatusEarly
  \/ UpdateTaskStatusEarly
  \/ Commit

SpecEarly == Init /\ [][NextEarly]_vars

\* Every write operation, with the failure of its remote call.
NextWrites ==
  \/ CreateJob
  \/ CreateJobRejected
  \/ CreateTaskBoth
  \/ CreateTaskRejected
  \/ UpdateJobStatusFinal
  \/ UpdateTaskStatusFinal
  \/ CreateFile
  \/ CreateFileRejected
  \/ UpdateFile
  \/ RemoveFile
  \/ CreateError
  \/ Commit
  \/ Reject

SpecWrites == Init /\ [][NextWrites]_vars

\* The content operations, with the failure of each of their awaits.
NextContent ==
  \/ CreateFromContent
  \/ CreateFromContentRejected
  \/ WriteFile
  \/ WriteFileRejected
  \/ RemoveFromLogicalFile
  \/ RemoveFromPhysicalFile
  \/ Unlink
  \/ UnlinkRejected
  \/ Commit
  \/ Reject

SpecContent == Init /\ [][NextContent]_vars

\* A delta message arrives and is filtered.
NextDeltas ==
  \/ ReceiveChangeset
  \/ ReceiveInsert
  \/ ReceiveDelete
  \/ GetSubjects
  \/ GetSubjectsWithFunctions

SpecDeltas == Init /\ [][NextDeltas]_vars

\* A delta message arrives and its matching triples are taken.
NextTriples ==
  \/ ReceiveChangeset
  \/ ReceiveInsert
  \/ ReceiveDelete
  \/ GetTriplesWithFunctions

SpecTriples == Init /\ [][NextTriples]_vars

(***************************************************************************)
(* Properties.                                                             *)
(***************************************************************************)
\* The updates built so far that the state still shows: those in flight and
\* the one the store executed last.
Writes == pending \cup {last.req}

FactsOf(st, s, p) == {q \in st : q[2] = s /\ q[3] = p}
ObjectsOf(st, s, p) == {q[4] : q \in FactsOf(st, s, p)}

\* s has a status and a modified fact in one graph.
HasStatusPair(st, s) ==
  \E q \in FactsOf(st, s, "adms:status") :
    \E m \in FactsOf(st, s, "dct:modified") : q[1] = m[1]

\* The predicates and types of containers and harvesting collections.
ContainerPredicates ==
  {"task:hasFile", "task:hasHarvestingCollection", "dct:hasPart",
   "task:inputContainer", "task:resultsContainer"}
ContainerTypes ==
  {namedNode("nfo:DataContainer"), namedNode("hrvst:HarvestingCollection")}
ContainerRelated(triples) ==
  {t \in triples :
     \/ t[2] \in ContainerPredicates
     \/ t[2] = "rdf:type" /\ t[3] \in ContainerTypes}

\* C1: every Job in the store has exactly one adms:status fact and exactly
\* one dct:modified fact, whatever createJob and updateJobStatus calls were
\* made.
C1_OneStatusOneModified ==
  \A job \in JobsInStore :
    /\ Cardinality(FactsOf(store, job, "adms:status")) = 1
    /\ Cardinality(FactsOf(store, job, "dct:modified")) = 1

\* A Job whose status an update has replaced.
C1_Witness ==
  /\ last.req.op = "updateJobStatus"
  /\ last.matched
  /\ last.req.s \in JobsInStore
  /\ ObjectsOf(store, last.req.s, "dct:modified") = {literalDateTime(last.req.now)}
  /\ ObjectsOf(store, last.req.s, "dct:created") # {literalDateTime(last.req.now)}

\* C2: an updateJobStatus update carries the task:error link from the Job to
\* the error if and only if the status is failed and an error was supplied,
\* so that a Job failed by such a call has its error link.
C2_ErrorLinkIffFailed ==
  /\ \A r \in Writes :
       r.op = "updateJobStatus" =>
         ((<<r.s, "task:error", r.error>> \in r.ins)
            <=> (r.status = JOB_STATUSES.failed /\ r.error # NoTerm))
  /\ (/\ last.req.op = "updateJobStatus"
      /\ last.matched
      /\ last.req.status = JOB_STATUSES.failed
      /\ last.req.error # NoTerm)
       => last.req.error \in ObjectsOf(store, last.req.s, "task:error")

\* C3: a step of the store adds a task:error link to a Task only when it
\* executes an updateTaskStatus of that Task with status failed, and a
\* task:resultsContainer link only when it executes one with status success;
\* the same step leaves the Task with that status.
C3_LinksOnlyWithTerminalStatus ==
  [][\A q \in store' \ store :
       /\ (q[3] = "task:error" /\ q[2] \in TasksInStore') =>
            /\ last'.req.op = "updateTaskStatus"
            /\ last'.req.s = q[2]
            /\ last'.req.status = TASK_STATUSES.failed
            /\ <<q[1], q[2], "adms:status", TASK_STATUSES.failed>> \in store'
       /\ (q[3] = "task:resultsContainer") =>
            /\ last'.req.op = "updateTaskStatus"
            /\ last'.req.s = q[2]
            /\ last'.req.status = TASK_STATUSES.success
            /\ <<q[1], q[2], "adms:status", TASK_STATUSES.success>> \in store'
    ]_vars

\* A Task failed by a call that passed results and an error: it has the
\* error link and no results container.
C3_Witness ==
  /\ last.req.op = "updateTaskStatus"
  /\ last.matched
  /\ last.req.status = TASK_STATUSES.failed
  /\ last.req.files # {}
  /\ ObjectsOf(store, last.req.s, "task:error") = {last.req.error}
  /\ ObjectsOf(store, last.req.s, "task:resultsContainer") = {}

\* C4: when the store executes a status update of an entity that has no
\* status/modified pair in any graph, the store does not change.
C4_NoMatchNoChange ==
  [][(/\ last' # last
      /\ last'.req.op \in StatusOps
      /\ ~HasStatusPair(store, last'.req.s)) => store' = store]_vars

\* A success update with results of a Task that does not exist has been
\* executed.
C4_Witness ==
  /\ last.req.op = "updateTaskStatus"
  /\ ~last.matched
  /\ last.req.status = TASK_STATUSES.success
  /\ last.req.files # {}
  /\ last.req.rdos # {}

\* C5: after the store has executed a status update of an existing Job or
\* Task, the entity has exactly one status fact, the status of that update,
\* however the updates in flight were ordered.
C5_LastWriterWins ==
  (last.req.op \in StatusOps /\ last.matched) =>
    ObjectsOf(store, last.req.s, "adms:status") = {last.req.status}

\* Two updates of one Task raced: the Task was created by the call before
\* the success update, the one call after it added the error link, and the
\* store executed the success update last.
C5_Witness ==
  /\ last.req.op = "updateTaskStatus"
  /\ last.matched
  /\ pending = {}
  /\ last.req.status = TASK_STATUSES.success
  /\ clock = last.req.now + 2
  /\ last.req.now > 0
  /\ ObjectsOf(store, last.req.s, "dct:created") = {literalDateTime(last.req.now - 1)}
  /\ ObjectsOf(store, last.req.s, "task:error") # {}

\* C6: no state of the store is torn: every Task has exactly one status; a
\* Task set to success by a call with results has its results container with
\* the container's facts; a Task set to failed by a call with an error has
\* its error link; and a File is never there without the other File of its
\* pair.
C6_NoTornState ==
  /\ \A task \in TasksInStore :
       Cardinality(FactsOf(store, task, "adms:status")) = 1
  /\ (/\ last.req.op = "updateTaskStatus"
      /\ last.matched
      /\ last.req.status = TASK_STATUSES.success
      /\ last.req.files \cup last.req.rdos # {})
       => \E c \in ObjectsOf(store, last.req.s, "task:resultsContainer") :
            /\ namedNode("nfo:DataContainer") \in ObjectsOf(store, c, "rdf:type")
            /\ last.req.files \subseteq ObjectsOf(store, c, "task:hasFile")
            /\ last.req.rdos # {} =>
                 \E hc \in ObjectsOf(store, c, "task:hasHarvestingCollection") :
                   last.req.rdos \subseteq ObjectsOf(store, hc, "dct:hasPart")
  /\ (/\ last.req.op = "updateTaskStatus"
      /\ last.matched
      /\ last.req.status = TASK_STATUSES.failed
      /\ last.req.error # NoTerm)
       => last.req.error \in ObjectsOf(store, last.req.s, "task:error")
  /\ \A q \in {x \in store : x[3] = "nie:dataSource"} :
       /\ namedNode("nfo:FileDataObject") \in ObjectsOf(store, q[2], "rdf:type")
       /\ namedNode("nfo:FileDataObject") \in ObjectsOf(store, q[4], "rdf:type")
  /\ \A f \in {x \in store : x[3] = "rdf:type" /\ x[4] = namedNode("nfo:FileDataObject")} :
       \E q \in {x \in store : x[3] = "nie:dataSource"} :
         f[2] = q[2] \/ f[2] = q[4]

\* A File pair is in the store and a Task has just been set to success with
\* files and remote data objects as results.
C6_Witness ==
  /\ last.req.op = "updateTaskStatus"
  /\ last.matched
  /\ last.req.status = TASK_STATUSES.success
  /\ last.req.files # {}
  /\ last.req.rdos # {}
  /\ \E q \in store : q[3] = "nie:dataSource"

\* C7: after updateJobStatus(J, failed, errRef) the fragment of
\* getStatusFromActivity for the activity of J holds exactly one status fact
\* of J, which is failed, and exactly one error fact of J, which is errRef.
C7_FailedJobFragment ==
  (/\ last.req.op = "updateJobStatus"
   /\ last.matched
   /\ last.req.status = JOB_STATUSES.failed
   /\ last.req.error # NoTerm)
    => \A activity \in ObjectsOf(store, last.req.s, "prov:generatedBy") :
         LET fragment == getStatusFromActivity(store, activity)
         IN /\ {t[3] : t \in {x \in fragment : x[1] = last.req.s /\ x[2] = "adms:status"}}
                 = {JOB_STATUSES.failed}
            /\ {t[3] : t \in {x \in fragment : x[1] = last.req.s /\ x[2] = "task:error"}}
                 = {last.req.error}

\* C8: the fragment of getStatusFromActivity(activity) holds facts only about
\* Jobs generated by that activity.
C8_OnlyJobsOfActivity ==
  \A activity \in Activities :
    \A t \in getStatusFromActivity(store, activity) :
      t[1] \in JobsInStore =>
        activity \in ObjectsOf(store, t[1], "prov:generatedBy")

\* C9: the one update of createTask holds the Task facts and holds container
\* or harvesting-collection facts exactly when files or remote data objects
\* were given; an updateTaskStatus update with empty results holds none.
C9_ContainerOnlyWithMembers ==
  \A r \in Writes :
    /\ r.op = "createTask" =>
         /\ <<r.s, "rdf:type", namedNode("task:Task")>> \in r.ins
         /\ <<r.s, "adms:status", r.status>> \in r.ins
         /\ (ContainerRelated(r.ins) # {}) <=> (r.files # {} \/ r.rdos # {})
         /\ r.files = {t[3] : t \in {x \in r.ins : x[2] = "task:hasFile"}}
         /\ r.rdos = {t[3] : t \in {x \in r.ins : x[2] = "dct:hasPart"}}
    /\ (r.op = "updateTaskStatus" /\ r.files = {} /\ r.rdos = {}) =>
         ContainerRelated(r.ins) = {}

\* A Task created without inputs and then set to success with an error and
\* empty results: the store holds no container.
C9_Witness ==
  /\ last.req.op = "updateTaskStatus"
  /\ last.matched
  /\ last.req.status = TASK_STATUSES.success
  /\ last.req.files = {}
  /\ last.req.rdos = {}
  /\ ContainerRelated(Triples(store)) = {}

\* C10: for a Task just created with inputs.files = F, getInputFilesFromTask
\* returns exactly F.
C10_InputFilesOfCreatedTask ==
  last.req.op = "createTask" =>
    getInputFilesFromTask(store, last.req.s) = last.req.files

\* The subjects a set of triples types as t.
TypedAs(triples, t) == {x[1] : x \in {y \in triples : y[2] = "rdf:type" /\ y[3] = t}}
\* The objects of p on s in a set of triples.
TripleObjects(triples, s, p) == {x[3] : x \in {y \in triples : y[1] = s /\ y[2] = p}}

\* C11: the update of a createTask with remote data objects and no files
\* holds exactly one Container, without hasFile link, and exactly one
\* HarvestingCollection nested in it, with one creator and one hasPart link
\* per remote data object; getInputFilesFromTask of the new Task is empty.  A
\* createTask update holds a HarvestingCollection if and only if remote data
\* objects were given.
C11_RemoteOnlyContainer ==
  /\ \A r \in Writes :
       r.op = "createTask" =>
         LET containers == TypedAs(r.ins, namedNode("nfo:DataContainer"))
             collections == TypedAs(r.ins, namedNode("hrvst:HarvestingCollection"))
         IN /\ (collections # {}) <=> (r.rdos # {})
            /\ (r.files = {} /\ r.rdos # {}) =>
                 /\ Cardinality(containers) = 1
                 /\ Cardinality(collections) = 1
                 /\ {t \in r.ins : t[2] = "task:hasFile"} = {}
                 /\ \A c \in containers :
                      TripleObjects(r.ins, c, "task:hasHarvestingCollection") = collections
                 /\ \A hc \in collections :
                      /\ Cardinality(TripleObjects(r.ins, hc, "dct:creator")) = 1
                      /\ TripleObjects(r.ins, hc, "dct:hasPart") = r.rdos
  /\ (last.req.op = "createTask" /\ last.req.files = {} /\ last.req.rdos # {})
       => getInputFilesFromTask(store, last.req.s) = {}

\* A Task has just been created with two remote data objects and no files,
\* and the store holds the collection with both.
C11_Witness ==
  /\ last.req.op = "createTask"
  /\ last.req.files = {}
  /\ last.req.rdos = RemoteDataObjects
  /\ Cardinality(RemoteDataObjects) = 2
  /\ \E q \in store :
       /\ q[3] = "task:hasHarvestingCollection"
       /\ ObjectsOf(store, q[4], "dct:hasPart") = RemoteDataObjects
       /\ ObjectsOf(store, q[2], "task:hasFile") = {}

\* C12: the files getInputFilesFromTask returns for a Task are the same
\* before and after the store executes an updateTaskStatus of that Task: files
\* attached through a Results Container are never returned.
C12_ResultsAreNotInputs ==
  [][(last' # last /\ last'.req.op = "updateTaskStatus") =>
       getInputFilesFromTask(store', last'.req.s)
         = getInputFilesFromTask(store, last'.req.s)]_vars

\* A Task has just been set to success with two files as results: its
\* Results Container holds them and getInputFilesFromTask returns neither.
C12_Witness ==
  /\ last.req.op = "updateTaskStatus"
  /\ last.matched
  /\ last.req.status = TASK_STATUSES.success
  /\ last.req.files = Files
  /\ Cardinality(Files) = 2
  /\ \E c \in ObjectsOf(store, last.req.s, "task:resultsContainer") :
       ObjectsOf(store, c, "task:hasFile") = Files
  /\ getInputFilesFromTask(store, last.req.s) \cap Files = {}

\* The physical Files that point to a logical File.
LinkedPhysicals(st, logicalFile) ==
  {q[2] : q \in {x \in st : x[3] = "nie:dataSource" /\ x[4] = logicalFile}}

\* Some graph holds a physical File pointing to s, both typed as Files.
HasFilePair(st, s) ==
  \E q \in st :
    /\ q[3] = "nie:dataSource"
    /\ q[4] = s
    /\ FileDataObject \in {x[4] : x \in {y \in st : y[1] = q[1] /\ y[2] = q[2] /\ y[3] = "rdf:type"}}
    /\ FileDataObject \in {x[4] : x \in {y \in st : y[1] = q[1] /\ y[2] = s /\ y[3] = "rdf:type"}}

\* The predicates of the fact set of a File.
FilePredicates ==
  {"rdf:type", "mu:uuid", "nfo:fileName", "dct:creator", "dct:created",
   "dct:modified", "dct:format", "nfo:fileSize", "dbpedia:fileExtension"}

\* C13: after the store has executed an updateFile of an existing pair, the
\* logical File and its physical File each have exactly one fileSize fact,
\* the new size, and exactly one modified fact, the time of the update.
C13_OneSizeOneModified ==
  (last.req.op = "updateFile" /\ last.matched) =>
    \A f \in {last.req.s} \cup LinkedPhysicals(store, last.req.s) :
      /\ ObjectsOf(store, f, "nfo:fileSize")
           = TripleObjects(last.req.ins, Variable("?logicalFile"), "nfo:fileSize")
      /\ ObjectsOf(store, f, "dct:modified") = {literalDateTime(last.req.now)}

\* C14: when the store executes an updateFile or removeFile of a logicalFile
\* for which no graph holds a logical/physical pair, the store does not
\* change.
C14_NoPairNoChange ==
  [][(/\ last' # last
      /\ last'.req.op \in FileOps
      /\ ~HasFilePair(store, last'.req.s)) => store' = store]_vars

\* A removeFile of a File of the store that no physical File points to has
\* been executed.
C14_Witness ==
  /\ last.req.op = "removeFile"
  /\ ~last.matched
  /\ ~last.failed
  /\ FileDataObject \in ObjectsOf(store, last.req.s, "rdf:type")
  /\ LinkedPhysicals(store, last.req.s) = {}

\* C15: when the store executes a removeFile of an existing pair, it removes
\* every fact whose subject is the logical File or a physical File linked to
\* it, and no other fact changes.
C15_RemoveWholePair ==
  [][(/\ last' # last
      /\ last'.req.op = "removeFile"
      /\ HasFilePair(store, last'.req.s))
       => store' = {q \in store :
                      q[2] \notin {last'.req.s} \cup LinkedPhysicals(store, last'.req.s)}
    ]_vars

\* A removeFile of an existing pair has been executed: the facts of other
\* subjects are still there, none of the File.
C15_Witness ==
  /\ last.req.op = "removeFile"
  /\ last.matched
  /\ {q \in store : q[2] = last.req.s} = {}
  /\ {q \in store : q[3] = "nie:dataSource"} = {}
  /\ ExternalFacts \subseteq store
  /\ TasksInStore # {}
  /\ \E q \in store : q[3] = "task:hasFile"

\* C16: after a createFile that succeeded, the logical and the physical
\* identifier differ, the graph holds the fact set of each, and the physical
\* File points to the logical File by dataSource; after a createFile whose
\* write failed, the store holds the uuid fact of neither.
C16_CreatedPair ==
  last.req.op = "createFile" =>
    \A physical \in last.req.files :
      LET logical == last.req.s
          g == last.req.g
          uuidFacts == {<<g, t[1], t[2], t[3]>> :
                          t \in {x \in last.req.ins : x[2] = "mu:uuid"}}
      IN /\ ~last.failed =>
              /\ logical # physical
              /\ <<g, physical, "nie:dataSource", logical>> \in store
              /\ \A f \in {logical, physical}, p \in FilePredicates :
                   \E q \in store : q[1] = g /\ q[2] = f /\ q[3] = p
              /\ <<g, logical, "rdf:type", FileDataObject>> \in store
              /\ <<g, physical, "rdf:type", FileDataObject>> \in store
              /\ uuidFacts \subseteq store
         /\ last.failed => uuidFacts \cap store = {}

\* A createFile has just succeeded.
C16_Witness ==
  /\ last.req.op = "createFile"
  /\ ~last.failed
  /\ \E q \in store : q[3] = "nie:dataSource" /\ q[4] = last.req.s
  /\ clock > 1

\* C17: a logical File is in the store if and only if its physical File is:
\* every dataSource link joins two typed Files of one graph, every File of
\* the store is an end of such a link, and no other fact about a File's
\* subject is left without the pair.
C17_PairTogether ==
  LET links == {x \in store : x[3] = "nie:dataSource"}
      ends == {q[2] : q \in links} \cup {q[4] : q \in links}
      fileFacts == {x \in store : x[3] \in {"nfo:fileSize", "nfo:fileName",
                                             "dbpedia:fileExtension", "dct:format"}
                                   \/ (x[3] = "rdf:type" /\ x[4] = FileDataObject)}
  IN /\ \A q \in links :
          /\ <<q[1], q[2], "rdf:type", FileDataObject>> \in store
          /\ <<q[1], q[4], "rdf:type", FileDataObject>> \in store
     /\ \A f \in fileFacts : f[2] \in ends
     /\ \A e \in ends :
          FileDataObject \in ObjectsOf(store, e, "rdf:type")

\* An updateFile of a logical File was in flight while the pair was removed:
\* the store executed it afterwards and holds no fact of a File.
C17_Witness ==
  /\ last.req.op = "updateFile"
  /\ ~last.matched
  /\ ~last.failed
  /\ last.req.s # BASE_TABLE(0)
  /\ pending = {}
  /\ {x \in store : x[3] \in FilePredicates \cup {"nie:dataSource"}
                       /\ x[2] \notin Activities} = {}

\* C18: createError performs one insert in which the largePreview fact is
\* present if and only if detail was provided, and the references fact is
\* present if and only if reference was provided.
C18_DetailAndReferenceIffProvided ==
  last.req.op = "createError" =>
    /\ (\E t \in last.req.ins : t[2] = "oslc:largePreview")
         <=> last.req.status # NoTerm
    /\ (\E t \in last.req.ins : t[2] = "dct:references")
         <=> last.req.error # NoTerm

\* C19: once the facts of an Error are in the store, no operation adds or
\* removes a fact whose subject is that Error, whatever its arguments.
C19_ErrorsImmutable ==
  [][\A q \in store \cup store' :
       q[2] \in ErrorsInStore => (q \in store /\ q \in store')]_vars

\* Two Errors are in the store and the removal of a file, called on one of
\* them, has been executed.
C19_Witness ==
  /\ Cardinality(ErrorsInStore) >= 2
  /\ last.req.op = "removeFile"
  /\ last.req.s \in ErrorsInStore
  /\ \E q \in store : q[2] = last.req.s /\ q[3] = "oslc:largePreview"

\* The RDF term a term of a delta message stands for.
TermOf(json) ==
  IF json.type = "uri" THEN namedNode(json.value) ELSE literal(json.value)

\* The inserts of a message, in changeset order and then in list order.
RECURSIVE InsertsOf(_)
InsertsOf(ds) ==
  IF ds = <<>> THEN <<>> ELSE Head(ds).inserts \o InsertsOf(Tail(ds))

\* The subjects of the triples of a list whose predicate is p and object o.
RECURSIVE SubjectsOfMatching(_, _, _)
SubjectsOfMatching(triples, p, o) ==
  IF triples = <<>> THEN <<>>
  ELSE (IF TermOf(Head(triples).predicate) = p /\ TermOf(Head(triples).object) = o
        THEN <<TermOf(Head(triples).subject)>> ELSE <<>>)
       \o SubjectsOfMatching(Tail(triples), p, o)

\* C20: the filter returns, in changeset order and then in list order, the
\* subject of every inserted triple whose predicate is p and whose object is
\* o, duplicates kept; deletes never contribute.
C20_SubjectsOfMatchingInserts ==
  subjects.fn = "getSubjects" =>
    subjects.value = SubjectsOfMatching(InsertsOf(deltas), FilterPredicate, FilterObject)

\* The inserted triples whose predicate and object are the terms p and o.
IdenticalInserts(ds, p, o) ==
  SelectSeq(InsertsOf(ds), LAMBDA t : TermOf(t.predicate) = p /\ TermOf(t.object) = o)

\* C21: the filter keeps a triple only when its predicate and its object are
\* the same terms as the given ones (same kind of term, same value): as many
\* subjects are returned as there are such inserts, and none for a literal
\* object whose text is the value of the given IRI.
C21_KeepsIdenticalTermsOnly ==
  subjects.fn = "getSubjects" =>
    Len(subjects.value) = Len(IdenticalInserts(deltas, FilterPredicate, FilterObject))

\* The subjects of the triples of a list whose three components each satisfy
\* their own matcher.
RECURSIVE SubjectsOfSatisfying(_, _)
SubjectsOfSatisfying(triples, matchers) ==
  IF triples = <<>> THEN <<>>
  ELSE (IF /\ Apply(matchers[1], Head(triples).subject)
           /\ Apply(matchers[2], Head(triples).predicate)
           /\ Apply(matchers[3], Head(triples).object)
        THEN <<TermOf(Head(triples).subject)>> ELSE <<>>)
       \o SubjectsOfSatisfying(Tail(triples), matchers)

\* C22: the filter with matcher functions returns the subjects of exactly the
\* inserted triples whose subject satisfies the subject matcher, whose
\* predicate satisfies the predicate matcher and whose object satisfies the
\* object matcher.
C22_EachMatcherOnItsComponent ==
  subjects.fn = "getSubjectsWithFunctions" =>
    subjects.value = SubjectsOfSatisfying(InsertsOf(deltas), subjects.matchers)

\* C23: across the status updates of one Job the modified value never
\* decreases: every update the store executes leaves a modified value greater
\* than or equal to the one it replaced, in whatever order the store executes
\* the updates of different callers.
C23_ModifiedNeverDecreases ==
  [][\A j \in JobsInStore :
       \A old \in ObjectsOf(store, j, "dct:modified") :
         \A new \in ObjectsOf(store', j, "dct:modified") : new[3] >= old[3]]_vars

\* C24: status transitions are not guarded: an update of an existing Job or
\* Task to any status, whatever its current status, matches and leaves the
\* entity with that status as its single status fact.
C24_AnyTransition ==
  (last.req.op \in StatusOps /\ last.req.s \in JobsInStore \cup TasksInStore) =>
    /\ last.matched
    /\ Cardinality(FactsOf(store, last.req.s, "adms:status")) = 1
    /\ ObjectsOf(store, last.req.s, "adms:status") = {last.req.status}

\* A Task that had failed (it carries the error link) has been set back to
\* scheduled.
C24_Witness ==
  /\ last.req.op = "updateTaskStatus"
  /\ last.matched
  /\ last.req.status = TASK_STATUSES.scheduled
  /\ FactsOf(store, last.req.s, "task:error") # {}
  /\ ObjectsOf(store, last.req.s, "adms:status") = {TASK_STATUSES.scheduled}

\* C25: every invocation of a write operation issues exactly one store write:
\* a step that starts a call either performs the one write of that call or
\* puts it in flight, and the store settles one write at a time.  When the
\* write fails the store is unchanged, the caller gets no entity reference
\* and the write is not in flight again.
C25_OneWriteNoRetry ==
  [][/\ clock' # clock =>
          \/ pending' = pending /\ last'.req.now = clock
          \/ /\ \E r \in pending' \ pending : r.now = clock /\ pending' = pending \cup {r}
             /\ store' = store
             /\ last' = last
     /\ clock' = clock =>
          /\ pending' \subseteq pending
          /\ pending \ pending' = {last'.req}
     /\ (last'.failed /\ last' # last) =>
          /\ store' = store
          /\ last'.returned = NoTerm
          /\ last'.req \notin pending']_vars

\* The update of the status of a Job of the store has failed: the Job is
\* still busy and nothing is in flight.
C25_Witness ==
  /\ last.failed
  /\ last.req.op = "updateJobStatus"
  /\ last.req.s \in JobsInStore
  /\ ObjectsOf(store, last.req.s, "adms:status") = {JOB_STATUSES.busy}
  /\ pending = {}

\* The activities a remote data object is a part of.
ActivitiesOf(st, r) == {q[2] : q \in {x \in st : x[3] = "nie:hasPart" /\ x[4] = r}}

C27_CreatedJob ==
  (last.req.op = "createJob" /\ ~last.failed) =>
    LET job == last.returned
        facts == {q \in store : q[2] = job}
    IN /\ facts = {<<last.req.g, t[1], t[2], t[3]>> : t \in last.req.ins}
       /\ <<last.req.g, job, "rdf:type", namedNode("cogs:Job")>> \in facts
       /\ Cardinality(FactsOf(store, job, "adms:status")) = 1
       /\ ObjectsOf(store, job, "adms:status") = {JOB_STATUSES.busy}
       /\ ObjectsOf(store, job, "prov:generatedBy") = {last.req.activity}
       /\ Cardinality(FactsOf(store, job, "dct:created")) = 1
       /\ ObjectsOf(store, job, "dct:created") = ObjectsOf(store, job, "dct:modified")
       /\ \A other \in JobsInStore \ {job} :
            \A q \in store : q[2] = other => q[4] # literalUuid(last.req.s[3])

\* A second Job has been created, for the other activity, while an update of
\* the first is in flight.
C27_Witness ==
  /\ last.req.op = "createJob"
  /\ ~last.failed
  /\ Cardinality(JobsInStore) = 2
  /\ Cardinality({ObjectsOf(store, j, "prov:generatedBy") : j \in JobsInStore}) = 2
  /\ pending # {}

\* C28: a status update of a Job or Task changes only the status and the
\* modified fact of its target, next to the error and results facts it adds:
\* every other fact of the target (uuid, created, creator, operation,
\* cogsOperation, index, isPartOf, generatedBy) and every fact of every other
\* entity of the store is left as it was.
C28_StatusUpdateFrame ==
  [][(last'.req.op \in StatusOps /\ store' # store) =>
       /\ \A q \in store \ store' :
            q[2] = last'.req.s /\ q[3] \in {"adms:status", "dct:modified"}
       /\ \A q \in store' \ store :
            \/ /\ q[2] = last'.req.s
               /\ q[3] \in {"adms:status", "dct:modified", "task:error",
                            "task:resultsContainer"}
            \/ q[2] \notin {x[2] : x \in store}]_vars

\* A Task of a Job of the store has been set to success with results.
C28_Witness ==
  /\ last.req.op = "updateTaskStatus"
  /\ last.matched
  /\ FactsOf(store, last.req.s, "task:resultsContainer") # {}
  /\ ObjectsOf(store, last.req.s, "dct:isPartOf") \cap JobsInStore # {}
  /\ ObjectsOf(store, last.req.s, "dct:created") # ObjectsOf(store, last.req.s, "dct:modified")

\* C29: a status update of a Task never retracts an error link or a results
\* container link.  An update that matches leaves the Task with its status,
\* also when the Task carries an error link; it creates at most one Container
\* and at most one HarvestingCollection, and a success update with results
\* adds exactly one results container to the Task.
C29_LinksAreKept ==
  [][/\ \A q \in store :
          q[3] \in {"task:error", "task:resultsContainer"} => q \in store'
     /\ (last' # last /\ last'.req.op = "updateTaskStatus") =>
          LET t == last'.req.s
              newOf(type) == TypedAs(Triples(store'), type) \ TypedAs(Triples(store), type)
              added == ObjectsOf(store', t, "task:resultsContainer")
                         \ ObjectsOf(store, t, "task:resultsContainer")
          IN /\ Cardinality(newOf(namedNode("nfo:DataContainer"))) <= 1
             /\ Cardinality(newOf(namedNode("hrvst:HarvestingCollection"))) <= 1
             /\ last'.matched =>
                  ObjectsOf(store', t, "adms:status") = {last'.req.status}
             /\ (/\ last'.matched
                 /\ last'.req.status = TASK_STATUSES.success
                 /\ (last'.req.files # {} \/ last'.req.rdos # {})) =>
                  /\ Cardinality(added) = 1
                  /\ added = newOf(namedNode("nfo:DataContainer"))]_vars

\* A Task that failed with an error has been set to success with results: it
\* carries the error link and one results container.
C29_Witness ==
  /\ last.req.op = "updateTaskStatus"
  /\ last.matched
  /\ last.req.status = TASK_STATUSES.success
  /\ ObjectsOf(store, last.req.s, "adms:status") = {TASK_STATUSES.success}
  /\ FactsOf(store, last.req.s, "task:error") # {}
  /\ Cardinality(FactsOf(store, last.req.s, "task:resultsContainer")) = 1

\* C30: every createFile that succeeds allocates two fresh identifiers: the
\* logical and the physical File it returns are the subject of no fact of the
\* store before the call, so that a later createFile never adds facts to a
\* File that exists already.
C30_FreshFileIdentifiers ==
  [][(last' # last /\ last'.req.op = "createFile" /\ ~last'.failed) =>
       \A f \in {last'.req.s} \cup last'.req.files :
         \A q \in store : q[2] # f]_vars

\* C31: a status update that the store executes before the create of its
\* entity changes nothing and is not kept for later; when the create is
\* executed the entity carries its creation status and no error or results
\* fact of an update that came too early.
C31_EarlyUpdateIsLost ==
  [][/\ (last' # last /\ last'.req.op \in StatusOps /\ ~last'.matched) =>
          /\ store' = store
          /\ last'.req \notin pending'
     /\ (last' # last /\ last'.req.op \in {"createJob", "createTask"}) =>
          LET e == last'.req.s
          IN /\ ObjectsOf(store', e, "adms:status") = {last'.req.status}
             /\ FactsOf(store', e, "task:error") = {}
             /\ FactsOf(store', e, "task:resultsContainer") = {}]_vars

\* The create of a Task was the first call and a success update with
\* results of that Task the second; the store has executed the update first
\* and the create last, and the Task is scheduled.
C31_Witness ==
  /\ last.req.op = "createTask"
  /\ last.req.now = 0
  /\ clock = 2
  /\ nextUuid = 6
  /\ pending = {}
  /\ ObjectsOf(store, last.req.s, "adms:status") = {TASK_STATUSES.scheduled}

\* The calls that registered in this step, and those that left.
Entered == calls' \ calls
Left == calls \ calls'

\* logicalFile has a File pair none of whose physical paths holds content.
PairWithoutContent(st, volume, logicalFile) ==
  /\ HasFilePair(st, logicalFile)
  /\ \A physicalFile \in LinkedPhysicals(st, logicalFile) :
       ~Exists(volume, ReplaceShareBack(physicalFile))

\* C32: createFromContent writes the bytes only after its insert of the File
\* pair has succeeded: content appears on the volume only from a call that
\* waits for fs.writeFile, a call waits for it only from the step in which
\* the store has executed its insert, and a failed insert writes nothing and
\* leaves no call behind; when the write fails the store is left as it is,
\* the pair is not taken back.
C32_BytesAfterInsert ==
  [][/\ \A f \in disk' \ disk :
          \E c \in Left : c.fn = "createFromContent" /\ c.path = f.path
                            /\ c.content = f.content
     /\ \A c \in Entered :
          c.fn = "createFromContent" =>
            /\ last'.req.op = "createFile"
            /\ last'.req.now = c.now
            /\ ~last'.failed
            /\ last'.req.s = c.logicalFile
            /\ HasFilePair(store', c.logicalFile)
     /\ (last' # last /\ last'.req.op = "createFile" /\ last'.failed) =>
          /\ disk' = disk
          /\ calls' = calls
          /\ store' = store
     /\ (last' # last /\ last'.req.op = "createFromContent") =>
          /\ last'.failed
          /\ store' = store
          /\ disk' = disk]_vars

\* The write of a createFromContent has failed and nothing is in progress:
\* the store holds the File pair and no path of it holds content.
C32_Witness ==
  /\ last.req.op = "createFromContent"
  /\ last.failed
  /\ calls = {}
  /\ pending = {}
  /\ PairWithoutContent(store, disk, last.req.s)

\* C33: removeFromLogicalFile and removeFromPhysicalFile delete the content
\* before they remove the records: a removal of records is sent only in the
\* step in which fs.unlink has deleted the content at the path of the call;
\* when fs.unlink fails the error reaches the caller and neither the store
\* nor the updates in flight change; when the removal of the records fails
\* the store is left as it is and the content is not restored; and
\* removeFromLogicalFile of a File with no physical File linked raises an
\* error without changing anything and without going on to fs.unlink.
C33_ContentBeforeRecords ==
  [][/\ \A r \in pending' \ pending :
          r.op = "removeFile" =>
            \E c \in Left : /\ c.fn \in RemovingFunctions
                            /\ c.logicalFile = r.s
                            /\ Exists(disk, c.path)
                            /\ ~Exists(disk', c.path)
     /\ (last' # last /\ last'.req.op \in RemovingFunctions) =>
          /\ last'.failed
          /\ store' = store
          /\ pending' = pending
          /\ disk' = disk
     /\ (last' # last /\ last'.req.op = "removeFile" /\ last'.failed) =>
          /\ store' = store
          /\ \A f \in disk' : f \in disk
     /\ (last' # last /\ last'.req.op = "removeFromLogicalFile" /\ Left = {}) =>
          /\ PhysicalFilesOf(store, last'.req.s) = {}
          /\ calls' = calls
     /\ \A c \in Entered :
          c.fn = "removeFromLogicalFile" =>
            PhysicalFilesOf(store, c.logicalFile) # {}]_vars

\* The removal of the records of a removeFromLogicalFile has failed after the
\* content was deleted: the File pair is in the store and its content is gone.
C33_Witness ==
  /\ last.req.op = "removeFile"
  /\ last.failed
  /\ calls = {}
  /\ pending = {}
  /\ PairWithoutContent(store, disk, last.req.s)
  /\ clock = 2

\* Every element of array satisfies matcher.
AllAccepted(array, matcher) ==
  \A i \in 1..Len(array) : Apply(matcher, array[i])

============================================================================
